---- MODULE Spec2Model ----
(***************************************************************************)
(* Verification model of the forecast engine (apps/forecast-engine):       *)
(*   - ChampionChallengerService.evaluate / apply_promotion                *)
(*     (src/backtesting/champion_challenger.py) over the champion store    *)
(*     of ForecastRepository (src/db/repositories/forecast_repo.py);       *)
(*   - ForecastPipeline.execute (src/pipeline/executor.py) driven by       *)
(*     JobProcessor.process (src/workers/job_processor.py).                *)
(*                                                                         *)
(* Floats are fixed-point integers: one unit is 10^-5 percentage points of *)
(* MAPE, so round(x, 4) is rounding to a multiple of 10 units and the      *)
(* "%.2f" format is rounding to a multiple of 1000 units.                  *)
(***************************************************************************)
EXTENDS Integers, Sequences, FiniteSets, TLC

\* ------------------------------------------------------------------ bounds
MaxProducts == 2          \* product ids are 1..MaxProducts
MaxMape == 12             \* MAPE inputs are 0..MaxMape units
MaxModelRows == 3         \* forecast_modelo rows are 1..MaxModelRows
MaxCreated == 2           \* created_at stamps are 1..MaxCreated
MaxClock == 2             \* datetime.now() readings are 1..MaxClock
MaxSkus == 2              \* a job carries at most MaxSkus classifications
MaxTrainModels == 2       \* a train job sees at most MaxTrainModels models
MaxWeeks == 41            \* weeks_of_data is None or 0..MaxWeeks
MaxSegmentSkus == 3       \* segment is given at most MaxSegmentSkus classifications
MaxSeriesLen == 3         \* a product's series has 0..MaxSeriesLen weekly values
MaxVersion == 2           \* train calls made on one model

\* --------------------------------------------------------------- constants
Round4Step == 10          \* round(x, 4): 10^-4 is 10 units
Fmt2Step == 1000          \* f"{x:.2f}": 10^-2 is 1000 units
PercentUnit == 100000     \* one percentage point of MAPE in units
BASELINE_WINDOW == 12     \* Backtester(baseline_window=12)

NoValue == <<>>           \* Python None for an optional number
Some(v) == <<v>>
NoId == 0                 \* Python None for an optional row id

Products == 1..MaxProducts
MapeValues == 0..MaxMape
Families == {"TFT", "ETS"}
ModelIds == 1..MaxModelRows

VARIABLES
    \* --- ChampionChallengerService.evaluate (pure function under test)
    ev_pc,            \* "input" | "done"
    ev_per_product,   \* BacktestResult.per_product: model name -> (pid -> mape)
    ev_model_name,    \* model_name argument
    ev_champion_mape, \* champion_mape argument: NoValue or Some(units)
    ev_tie_up,        \* how the binary float resolves a decimal rounding tie
    ev_decision,      \* the returned PromotionDecision (or NoValue)
    \* --- ForecastRepository champion store and one apply_promotion call
    store,            \* forecast_modelo rows: id -> [tipo_modelo, is_champion, created_at]
    ap_pc,            \* position inside apply_promotion
    ap_decision,      \* decision argument
    ap_new_model_id,  \* new_model_id argument
    ap_champion_id,   \* local champion_model_id
    ap_pre_store,     \* the store when the call started
    ap_repo_calls,    \* repository calls awaited by this call, in order
    ap_log,           \* the returned PromotionLog (or NoValue)
    \* --- JobProcessor.process running ForecastPipeline.execute
    job_pc,           \* position inside process / execute
    inp,              \* the arguments of process and the job descriptor
    reporter,         \* InMemoryProgressReporter: events, completions, failures
    result,           \* the PipelineResult being built (or NoValue)
    ex,               \* locals of execute: segments and the model-step loop
    tr,               \* locals of _process_train
    calls,            \* model operations awaited so far, in order
    raised,           \* the exception travelling up to process (or NoError)
    job_result,       \* the returned JobResult (or NoValue)
    \* --- one ModelRegistry.select_model call
    reg_pc,           \* "idle" | "input" | "done"
    reg_args,         \* the keyword arguments
    reg_selection,    \* the returned ModelSelection (or NoValue)
    \* --- one SkuSegmenter.segment call
    seg_pc,           \* "idle" | "input" | "done"
    seg_args,         \* classifications and weeks_by_product
    seg_out,          \* [raised, segments] (or NoValue)
    \* --- one Backtester.run call
    bt_pc,            \* "idle" | "input" | "models" | "done" | "raised"
    bt_args,          \* holdout_weeks, models, produto_ids, series and classes
    bt_loc,           \* locals of run: valid_pids, baseline_metrics, loop index
    bt_result,        \* the BacktestResult being built (or NoValue)
    bt_calls,         \* model backtests awaited so far, in order
    \* --- one Backtester.collect_metadata call
    md_pc,            \* "idle" | "input" | "done"
    md_args,          \* models, backtest_result.per_product, champion_mapes
    md_out,           \* the returned list of ModelMetadata (or NoValue)
    \* --- one ChampionChallengerService.collect_metadata_with_champion call
    cm_pc,            \* "idle" | "find" | "evaluate" | "done"
    cm_args,          \* models and backtest_result.per_product
    cm_loc,           \* locals of the loop: index, current_champion, champion_mape
    cm_trace,         \* repository lookups and evaluate calls made, in order
    cm_out,           \* the list of ModelMetadata built so far
    \* --- a repository call of apply_promotion that raises
    ap_raised,        \* the exception leaving apply_promotion (or NoError)
    \* --- two jobs running apply_promotion on the same store
    cc_pc,            \* job -> "find" | "demote" | "promote" | "log" | "returned"
    cc_args,          \* [model_name, new_model_id: job -> id]
    cc_champion_id,   \* job -> local champion_model_id
    cc_writes,        \* the jobs in the order of their promote_champion
    \* --- one concrete forecast model and the calls made on it
    tm_kind,          \* which model class
    tm_fitted,        \* the fitted state: produto_id -> what the model keeps
    tm_version,       \* self._version
    tm_call,          \* the last train or predict call: arguments, state before, result
    \* --- one EnsembleModel.predict call
    en_pc,            \* "idle" | "tft" | "lgbm" | "blend" | "done"
    en_args,          \* produto_ids and self._weights
    en_loc,           \* tft_results and lgbm_results
    en_out            \* the returned list of ForecastResult (or NoValue)

evVars == <<ev_pc, ev_per_product, ev_model_name, ev_champion_mape, ev_tie_up, ev_decision>>
apVars == <<store, ap_pc, ap_decision, ap_new_model_id, ap_champion_id,
            ap_pre_store, ap_repo_calls, ap_log>>
jobVars == <<job_pc, inp, reporter, result, ex, tr, calls, raised, job_result>>
regVars == <<reg_pc, reg_args, reg_selection>>
segVars == <<seg_pc, seg_args, seg_out>>
btVars == <<bt_pc, bt_args, bt_loc, bt_result, bt_calls>>
mdVars == <<md_pc, md_args, md_out>>
cmVars == <<cm_pc, cm_args, cm_loc, cm_trace, cm_out>>
afVars == <<ap_raised>>
ccVars == <<cc_pc, cc_args, cc_champion_id, cc_writes>>
tmVars == <<tm_kind, tm_fitted, tm_version, tm_call>>
enVars == <<en_pc, en_args, en_loc, en_out>>
xVars == <<cmVars, afVars, ccVars, tmVars, enVars>>
apLocals == <<ap_pc, ap_decision, ap_new_model_id, ap_champion_id,
              ap_pre_store, ap_repo_calls, ap_log>>
coreVars == <<evVars, jobVars, regVars, segVars, btVars, mdVars>>
cmRest == <<coreVars, apVars, afVars, ccVars, tmVars, enVars>>
afRest == <<coreVars, cmVars, ccVars, tmVars, enVars>>
ccRest == <<coreVars, apLocals, cmVars, afVars, tmVars, enVars>>
tmRest == <<coreVars, apVars, cmVars, afVars, ccVars, enVars>>
enRest == <<coreVars, apVars, cmVars, afVars, ccVars, tmVars>>
libVars == <<regVars, segVars, btVars, mdVars, xVars>>
vars == <<evVars, apVars, jobVars, libVars>>

\* ---------------------------------------------------------------- helpers
RECURSIVE SumOver(_, _)
SumOver(f, S) ==
    IF S = {} THEN 0
    ELSE LET x == CHOOSE y \in S : TRUE IN f[x] + SumOver(f, S \ {x})

\* Python round(num / den, ndigits) on the fixed-point grid: the nearest
\* multiple of `step`; an exact decimal tie goes where the binary float lies.
RoundDiv(num, den, step, tieUp) ==
    LET k == num \div (den * step)
        r == num - k * den * step
    IN IF 2 * r < den * step THEN k * step
       ELSE IF 2 * r > den * step THEN (k + 1) * step
       ELSE IF tieUp THEN (k + 1) * step ELSE k * step

\* dict.get(key, {}) on a dict modelled as a function with a finite domain
DictGet(d, key) == IF key \in DOMAIN d THEN d[key] ELSE <<>>

\* All dicts with keys in a subset of K and values in V
Dicts(K, V) == UNION {[S -> V] : S \in SUBSET K}

\* ============================================================== evaluate
InnerDicts == Dicts(Products, [mape : MapeValues])
NO_METRICS_REASON == <<"No backtest metrics available for model">>
AUTO_PROMOTED_REASON == <<"No existing champion - auto-promoted">>

PromotionDecision(model_name, promoted, new_mape, champion_mape, reason) ==
    [model_name |-> model_name, promoted |-> promoted, new_mape |-> new_mape,
     champion_mape |-> champion_mape, reason |-> reason]

\* f"New MAPE ({new:.2f}%) {op} Champion MAPE ({champ:.2f}%)"
ReasonFmt(op, new_avg_mape, champion, tieUp) ==
    <<"New MAPE", RoundDiv(new_avg_mape, 1, Fmt2Step, tieUp), op,
      "Champion MAPE", RoundDiv(champion, 1, Fmt2Step, tieUp)>>

\* new_avg_mape = round(sum(m.mape ...) / len(per_product), 4)
NewAvgMape(per_product, tieUp) ==
    RoundDiv(SumOver([p \in DOMAIN per_product |-> per_product[p].mape],
                     DOMAIN per_product),
             Cardinality(DOMAIN per_product), Round4Step, tieUp)

\* Mutant: a tie promotes
BeatsOrTies(new_avg_mape, champion) == new_avg_mape <= champion

\* The comparison on champion_challenger.py line 100
Beats(new_avg_mape, champion) == new_avg_mape < champion

\* Mutant: a missing champion is compared as a champion MAPE of zero
evaluate_NoAutoPromote(per_product_all, model_name, champion_mape, tieUp) ==
    LET per_product == DictGet(per_product_all, model_name)
        champion == IF champion_mape = NoValue THEN 0 ELSE champion_mape[1]
    IN IF DOMAIN per_product = {}
       THEN PromotionDecision(model_name, FALSE, 0, champion_mape, NO_METRICS_REASON)
       ELSE LET new_avg_mape == NewAvgMape(per_product, tieUp)
            IN IF Beats(new_avg_mape, champion)
               THEN PromotionDecision(model_name, TRUE, new_avg_mape, champion_mape,
                        ReasonFmt("<", new_avg_mape, champion, tieUp))
               ELSE PromotionDecision(model_name, FALSE, new_avg_mape, champion_mape,
                        ReasonFmt(">=", new_avg_mape, champion, tieUp))

\* Mutant: the missing-champion test comes before the missing-metrics test
evaluate_ChampionFirst(per_product_all, model_name, champion_mape, tieUp) ==
    LET per_product == DictGet(per_product_all, model_name)
    IN IF champion_mape = NoValue
       THEN PromotionDecision(model_name, TRUE,
                IF DOMAIN per_product = {} THEN 0 ELSE NewAvgMape(per_product, tieUp),
                NoValue, AUTO_PROMOTED_REASON)
       ELSE IF DOMAIN per_product = {}
       THEN PromotionDecision(model_name, FALSE, 0, champion_mape, NO_METRICS_REASON)
       ELSE LET new_avg_mape == NewAvgMape(per_product, tieUp)
            IN IF Beats(new_avg_mape, champion_mape[1])
               THEN PromotionDecision(model_name, TRUE, new_avg_mape, champion_mape,
                        ReasonFmt("<", new_avg_mape, champion_mape[1], tieUp))
               ELSE PromotionDecision(model_name, FALSE, new_avg_mape, champion_mape,
                        ReasonFmt(">=", new_avg_mape, champion_mape[1], tieUp))

evaluate(per_product_all, model_name, champion_mape, tieUp) ==
    LET per_product == DictGet(per_product_all, model_name)
    IN IF DOMAIN per_product = {}
       THEN PromotionDecision(model_name, FALSE, 0, champion_mape, NO_METRICS_REASON)
       ELSE LET new_avg_mape == NewAvgMape(per_product, tieUp)
            IN IF champion_mape = NoValue
               THEN PromotionDecision(model_name, TRUE, new_avg_mape, NoValue,
                                      AUTO_PROMOTED_REASON)
               ELSE IF Beats(new_avg_mape, champion_mape[1])
               THEN PromotionDecision(model_name, TRUE, new_avg_mape, champion_mape,
                        ReasonFmt("<", new_avg_mape, champion_mape[1], tieUp))
               ELSE PromotionDecision(model_name, FALSE, new_avg_mape, champion_mape,
                        ReasonFmt(">=", new_avg_mape, champion_mape[1], tieUp))

EvIdle ==
    /\ ev_pc = "idle"
    /\ ev_per_product = <<>>
    /\ ev_model_name = "TFT"
    /\ ev_champion_mape = NoValue
    /\ ev_tie_up = FALSE
    /\ ev_decision = NoValue

EvInit ==
    /\ ev_pc = "input"
    /\ ev_per_product \in Dicts({"TFT"}, InnerDicts)
    /\ ev_model_name \in Families
    /\ ev_champion_mape \in {NoValue} \cup {Some(c) : c \in MapeValues}
    /\ ev_tie_up \in BOOLEAN
    /\ ev_decision = NoValue

Evaluate ==
    /\ UNCHANGED <<apVars, jobVars, libVars>>
    /\ ev_pc = "input"
    /\ ev_decision' = evaluate(ev_per_product, ev_model_name, ev_champion_mape, ev_tie_up)
    /\ ev_pc' = "done"
    /\ UNCHANGED <<ev_per_product, ev_model_name, ev_champion_mape, ev_tie_up>>

\* ===================================================== champion store
Rows == [tipo_modelo : Families, is_champion : BOOLEAN, created_at : 1..MaxCreated]

ChampionsOf(st, tipo_modelo) ==
    {id \in DOMAIN st : st[id].tipo_modelo = tipo_modelo /\ st[id].is_champion}

\* Mutant: ORDER BY created_at ASC
find_current_champion_Oldest(st, tipo_modelo) ==
    LET champs == ChampionsOf(st, tipo_modelo)
    IN IF champs = {} THEN {NoId}
       ELSE {id \in champs : \A o \in champs : st[o].created_at >= st[id].created_at}

\* SELECT ... WHERE tipo_modelo = :t AND is_champion ORDER BY created_at DESC
\* LIMIT 1: the possible answers (rows with equal created_at come in any order)
find_current_champion(st, tipo_modelo) ==
    LET champs == ChampionsOf(st, tipo_modelo)
    IN IF champs = {} THEN {NoId}
       ELSE {id \in champs : \A o \in champs : st[o].created_at <= st[id].created_at}

\* Mutant: a single-row update of the newest champion instead of a blanket one
demote_champion_SingleRow(st, tipo_modelo) ==
    LET champs == ChampionsOf(st, tipo_modelo)
        one == IF champs = {} THEN NoId
               ELSE CHOOSE id \in champs : \A o \in champs : st[o].created_at <= st[id].created_at
    IN [id \in DOMAIN st |->
           IF id = one THEN [st[id] EXCEPT !.is_champion = FALSE] ELSE st[id]]

\* Mutant: no demotion at all
demote_champion_Nothing(st, tipo_modelo) == st

\* UPDATE ... SET is_champion = false WHERE tipo_modelo = :t AND is_champion
demote_champion(st, tipo_modelo) ==
    [id \in DOMAIN st |->
        IF st[id].tipo_modelo = tipo_modelo /\ st[id].is_champion
        THEN [st[id] EXCEPT !.is_champion = FALSE]
        ELSE st[id]]

\* UPDATE ... SET is_champion = true WHERE id = :model_id
promote_champion(st, model_id) ==
    [id \in DOMAIN st |->
        IF id = model_id THEN [st[id] EXCEPT !.is_champion = TRUE] ELSE st[id]]

\* ===================================================== apply_promotion
PromotionLog(decision, champion_model_id, decided_at) ==
    [model_name |-> decision.model_name, promoted |-> decision.promoted,
     new_mape |-> decision.new_mape, champion_mape |-> decision.champion_mape,
     champion_model_id |-> champion_model_id, reason |-> decision.reason,
     decided_at |-> decided_at]

\* Decisions handed to apply_promotion: what evaluate returns for a family with
\* no metrics or one tested product, against no champion or a champion MAPE.
ApDecisions ==
    {evaluate([n \in {m} |-> pp], m, c, FALSE) :
        m \in Families,
        pp \in {<<>>, [p \in {1} |-> [mape |-> MaxMape - 2]]},
        c \in {NoValue, Some(0), Some(MaxMape)}}

\* Mutant: the mutating branch is taken whatever decision.promoted says
AfterFind_AlwaysMutate(decision) == "demote"

\* if decision.promoted: ... else: ...   (the branch after the lookup)
AfterFind(decision) == IF decision.promoted THEN "demote" ELSE "log"

ApIdle ==
    /\ ap_pc = "idle"
    /\ ap_decision = NoValue
    /\ ap_new_model_id = NoId
    /\ ap_champion_id = NoId
    /\ ap_pre_store = <<>>
    /\ ap_repo_calls = <<>>
    /\ ap_log = NoValue

\* Rows are numbered in the order save_model created them, so created_at never
\* decreases with the id; any of them may carry the champion flag (data drift).
Stores ==
    {st \in [ModelIds -> Rows] :
        \A a, b \in ModelIds : a < b => st[a].created_at <= st[b].created_at}

ApInit ==
    /\ store \in Stores
    /\ ApIdle

\* apply_promotion(decision, new_model_id) is entered
ApCall ==
    /\ UNCHANGED <<evVars, jobVars, libVars>>
    /\ ap_pc = "idle"
    /\ \E d \in ApDecisions, id \in ModelIds :
        /\ ap_decision' = d
        /\ ap_new_model_id' = id
    /\ ap_pc' = "find"
    /\ ap_champion_id' = NoId
    /\ ap_pre_store' = store
    /\ ap_repo_calls' = <<>>
    /\ ap_log' = NoValue
    /\ UNCHANGED store

\* champion = await find_current_champion(...); champion_model_id = ...
ApFind ==
    /\ UNCHANGED <<evVars, jobVars, libVars>>
    /\ ap_pc = "find"
    /\ \E c \in find_current_champion(store, ap_decision.model_name) :
        ap_champion_id' = c
    /\ ap_repo_calls' = Append(ap_repo_calls, <<"find_current_champion", ap_decision.model_name>>)
    /\ ap_pc' = AfterFind(ap_decision)
    /\ UNCHANGED <<store, ap_decision, ap_new_model_id, ap_pre_store, ap_log>>

\* await self._repo.demote_champion(decision.model_name)
ApDemote ==
    /\ UNCHANGED <<evVars, jobVars, libVars>>
    /\ ap_pc = "demote"
    /\ store' = demote_champion(store, ap_decision.model_name)
    /\ ap_repo_calls' = Append(ap_repo_calls, <<"demote_champion", ap_decision.model_name>>)
    /\ ap_pc' = "promote"
    /\ UNCHANGED <<ap_decision, ap_new_model_id, ap_champion_id, ap_pre_store, ap_log>>

\* await self._repo.promote_champion(new_model_id)
ApPromote ==
    /\ UNCHANGED <<evVars, jobVars, libVars>>
    /\ ap_pc = "promote"
    /\ store' = promote_champion(store, ap_new_model_id)
    /\ ap_repo_calls' = Append(ap_repo_calls, <<"promote_champion", ap_new_model_id>>)
    /\ ap_pc' = "log"
    /\ UNCHANGED <<ap_decision, ap_new_model_id, ap_champion_id, ap_pre_store, ap_log>>

\* return PromotionLog(..., decided_at=datetime.now(UTC).isoformat())
ApReturn ==
    /\ UNCHANGED <<evVars, jobVars, libVars>>
    /\ ap_pc = "log"
    /\ \E now \in 1..MaxClock :
        ap_log' = PromotionLog(ap_decision, ap_champion_id, now)
    /\ ap_pc' = "returned"
    /\ UNCHANGED <<store, ap_decision, ap_new_model_id, ap_champion_id,
                   ap_pre_store, ap_repo_calls>>

\* The caller takes the log; the service is ready for the next call
ApDone ==
    /\ UNCHANGED <<evVars, jobVars, libVars>>
    /\ ap_pc = "returned"
    /\ ap_pc' = "idle"
    /\ ap_decision' = NoValue
    /\ ap_new_model_id' = NoId
    /\ ap_champion_id' = NoId
    /\ ap_pre_store' = <<>>
    /\ ap_repo_calls' = <<>>
    /\ ap_log' = NoValue
    /\ UNCHANGED store

\* ===================================================== model registry
MIN_WEEKS_FOR_COMPLEX == 40
ClasseABC == {"A", "B", "C"}
PadraoDemanda == {"REGULAR", "INTERMITENTE", "ERRATICO", "LUMPY"}
NoName == "None"          \* Python None for an optional string
ENSEMBLE_WEIGHTS == [TFT |-> 6, LGBM |-> 4]     \* tenths: 0.6 and 0.4

\* Mutant: the table without its ERRATICO rows
MODEL_MATRIX_NoErratic(padrao_demanda, group) ==
    CASE padrao_demanda = "REGULAR" /\ group = "AB" -> <<"TFT", "LGBM">>
      [] padrao_demanda = "INTERMITENTE" /\ group = "ANY" -> <<"CROSTON", "SBA">>
      [] padrao_demanda = "LUMPY" /\ group = "ANY" -> <<"TSB", "BOOTSTRAP">>
      [] OTHER -> <<"ETS", "NAIVE">>

\* _MODEL_MATRIX.get((padrao_demanda, group), ("ETS", "NAIVE"))
MODEL_MATRIX(padrao_demanda, group) ==
    CASE padrao_demanda = "REGULAR" /\ group = "AB" -> <<"TFT", "LGBM">>
      [] padrao_demanda = "REGULAR" /\ group = "C" -> <<"ETS", "NAIVE">>
      [] padrao_demanda = "ERRATICO" /\ group = "AB" -> <<"TFT", "ETS">>
      [] padrao_demanda = "ERRATICO" /\ group = "C" -> <<"ETS", "NAIVE">>
      [] padrao_demanda = "INTERMITENTE" /\ group = "ANY" -> <<"CROSTON", "SBA">>
      [] padrao_demanda = "LUMPY" /\ group = "ANY" -> <<"TSB", "BOOTSTRAP">>
      [] OTHER -> <<"ETS", "NAIVE">>

ModelSelection(primary, fallback, ensemble, ensemble_weights) ==
    [primary |-> primary, fallback |-> fallback, ensemble |-> ensemble,
     ensemble_weights |-> ensemble_weights]

\* Mutant helper: the part of select_model below the override test
SelectWithoutOverride(classe_abc, padrao_demanda, weeks_of_data, min_weeks) ==
    IF weeks_of_data # NoValue /\ weeks_of_data[1] < min_weeks
    THEN ModelSelection("ETS", "NAIVE", FALSE, NoValue)
    ELSE IF padrao_demanda \in {"INTERMITENTE", "LUMPY"}
    THEN LET pf == MODEL_MATRIX(padrao_demanda, "ANY")
         IN ModelSelection(pf[1], pf[2], FALSE, NoValue)
    ELSE LET abc_group == IF classe_abc \in {"A", "B"} THEN "AB" ELSE "C"
             pf == MODEL_MATRIX(padrao_demanda, abc_group)
             ensemble == classe_abc = "A" /\ pf[1] = "TFT"
         IN ModelSelection(pf[1], pf[2], ensemble,
                           IF ensemble THEN ENSEMBLE_WEIGHTS ELSE NoValue)

\* Mutant: the insufficient-data rule is tested before the override
select_model_DataFirst(classe_abc, padrao_demanda, modelo_override, weeks_of_data) ==
    IF weeks_of_data # NoValue /\ weeks_of_data[1] < MIN_WEEKS_FOR_COMPLEX
    THEN ModelSelection("ETS", "NAIVE", FALSE, NoValue)
    ELSE IF modelo_override # NoName
    THEN ModelSelection(modelo_override, "NAIVE", FALSE, NoValue)
    ELSE SelectWithoutOverride(classe_abc, padrao_demanda, weeks_of_data,
                               MIN_WEEKS_FOR_COMPLEX)

\* Mutant: exactly 40 weeks still count as insufficient
select_model_InclusiveThreshold(classe_abc, padrao_demanda, modelo_override, weeks_of_data) ==
    IF modelo_override # NoName
    THEN ModelSelection(modelo_override, "NAIVE", FALSE, NoValue)
    ELSE SelectWithoutOverride(classe_abc, padrao_demanda, weeks_of_data,
                               MIN_WEEKS_FOR_COMPLEX + 1)

\* weeks_of_data is NoValue or Some(weeks)
select_model(classe_abc, padrao_demanda, modelo_override, weeks_of_data) ==
    IF modelo_override # NoName
    THEN ModelSelection(modelo_override, "NAIVE", FALSE, NoValue)
    ELSE IF weeks_of_data # NoValue /\ weeks_of_data[1] < MIN_WEEKS_FOR_COMPLEX
    THEN ModelSelection("ETS", "NAIVE", FALSE, NoValue)
    ELSE IF padrao_demanda \in {"INTERMITENTE", "LUMPY"}
    THEN LET pf == MODEL_MATRIX(padrao_demanda, "ANY")
         IN ModelSelection(pf[1], pf[2], FALSE, NoValue)
    ELSE LET abc_group == IF classe_abc \in {"A", "B"} THEN "AB" ELSE "C"
             pf == MODEL_MATRIX(padrao_demanda, abc_group)
             ensemble == classe_abc = "A" /\ pf[1] = "TFT"
         IN ModelSelection(pf[1], pf[2], ensemble,
                           IF ensemble THEN ENSEMBLE_WEIGHTS ELSE NoValue)

\* Arguments of one select_model call
Overrides == {NoName, "SBA", "ENSEMBLE"}
WeeksOfData == {NoValue} \cup {Some(w) : w \in 0..MaxWeeks}
SelectArgs ==
    [classe_abc : ClasseABC, padrao_demanda : PadraoDemanda,
     modelo_override : Overrides, weeks_of_data : WeeksOfData]

RegIdle == reg_pc = "idle" /\ reg_args = NoValue /\ reg_selection = NoValue
RegInit == reg_pc = "input" /\ reg_args \in SelectArgs /\ reg_selection = NoValue

\* registry.select_model(classe_abc=..., padrao_demanda=..., ...) returns
SelectModel ==
    /\ UNCHANGED <<evVars, apVars, jobVars, segVars, btVars, mdVars, xVars>>
    /\ reg_pc = "input"
    /\ reg_selection' = select_model(reg_args.classe_abc, reg_args.padrao_demanda,
                                     reg_args.modelo_override, reg_args.weeks_of_data)
    /\ reg_pc' = "done"
    /\ UNCHANGED reg_args

\* ===================================================== SKU segmenter
NoError == <<>>
SkuSegment(model_name, produto_ids, selections) ==
    [model_name |-> model_name, produto_ids |-> produto_ids, selections |-> selections]

\* weeks_by_product.get(produto_id) if weeks_by_product else None
WeeksOf(weeks_by_product, produto_id) ==
    IF weeks_by_product = NoValue \/ DOMAIN weeks_by_product = {} THEN NoValue
    ELSE IF produto_id \in DOMAIN weeks_by_product
    THEN Some(weeks_by_product[produto_id]) ELSE NoValue

\* ClasseABC(value) / PadraoDemanda(value): the ValueError of the first field
\* of a classification that is no member of its enum, or NoError
EnumError(classification) ==
    IF classification.classe_abc \notin ClasseABC
    THEN <<classification.classe_abc, "is not a valid ClasseABC">>
    ELSE IF classification.padrao_demanda \notin PadraoDemanda
    THEN <<classification.padrao_demanda, "is not a valid PadraoDemanda">>
    ELSE NoError

\* Mutant: the product id is put in front of the segment's list
SegmentAdd_Prepend(segments, classification, weeks_by_product) ==
    LET selection == select_model(classification.classe_abc,
                                  classification.padrao_demanda,
                                  classification.modelo_forecast_sugerido,
                                  WeeksOf(weeks_by_product, classification.produto_id))
        model_name == selection.primary
        old == IF model_name \in DOMAIN segments THEN segments[model_name]
               ELSE SkuSegment(model_name, <<>>, <<>>)
        new == SkuSegment(model_name,
                          <<classification.produto_id>> \o old.produto_ids,
                          [p \in DOMAIN old.selections \cup {classification.produto_id} |->
                              IF p = classification.produto_id THEN selection
                              ELSE old.selections[p]])
    IN [m \in DOMAIN segments \cup {model_name} |->
           IF m = model_name THEN new ELSE segments[m]]

\* One iteration of the loop of segment: the segments after `classification`
SegmentAdd(segments, classification, weeks_by_product) ==
    LET selection == select_model(classification.classe_abc,
                                  classification.padrao_demanda,
                                  classification.modelo_forecast_sugerido,
                                  WeeksOf(weeks_by_product, classification.produto_id))
        model_name == selection.primary
        old == IF model_name \in DOMAIN segments THEN segments[model_name]
               ELSE SkuSegment(model_name, <<>>, <<>>)
        new == SkuSegment(model_name,
                          Append(old.produto_ids, classification.produto_id),
                          [p \in DOMAIN old.selections \cup {classification.produto_id} |->
                              IF p = classification.produto_id THEN selection
                              ELSE old.selections[p]])
    IN [m \in DOMAIN segments \cup {model_name} |->
           IF m = model_name THEN new ELSE segments[m]]

\* SkuSegmenter.segment: [raised |-> error or NoError, segments |-> dict]
RECURSIVE SegmentFrom(_, _, _, _)
SegmentFrom(segments, classifications, i, weeks_by_product) ==
    IF i > Len(classifications) THEN [raised |-> NoError, segments |-> segments]
    ELSE IF EnumError(classifications[i]) # NoError
    THEN [raised |-> EnumError(classifications[i]), segments |-> segments]
    ELSE SegmentFrom(SegmentAdd(segments, classifications[i], weeks_by_product),
                     classifications, i + 1, weeks_by_product)

segment(classifications, weeks_by_product) ==
    SegmentFrom(<<>>, classifications, 1, weeks_by_product)

\* Arguments of one segment call: classifications of distinct products
\* (sku_classification.produto_id is unique) in any order
SegmentKinds ==
    [classe_abc : {"A", "C"}, padrao_demanda : {"REGULAR", "INTERMITENTE"},
     modelo_forecast_sugerido : {NoName}]
    \cup {[classe_abc |-> "A", padrao_demanda |-> "REGULAR",
           modelo_forecast_sugerido |-> "SBA"]}
SegmentProducts == 1..MaxSegmentSkus
ProductOrders ==
    UNION {{ids \in [1..n -> SegmentProducts] :
              \A i, j \in 1..n : i # j => ids[i] # ids[j]} : n \in 0..MaxSegmentSkus}
SegmentClassifications ==
    UNION {{[i \in DOMAIN ids |-> [produto_id |-> ids[i],
                                    classe_abc |-> f[i].classe_abc,
                                    padrao_demanda |-> f[i].padrao_demanda,
                                    modelo_forecast_sugerido |-> f[i].modelo_forecast_sugerido]] :
              f \in [DOMAIN ids -> SegmentKinds]} : ids \in ProductOrders}
SegmentWeeks ==
    {NoValue, [p \in SegmentProducts |-> MIN_WEEKS_FOR_COMPLEX - 1],
     [p \in {1} |-> MIN_WEEKS_FOR_COMPLEX - 1]}

SegIdle == seg_pc = "idle" /\ seg_args = NoValue /\ seg_out = NoValue
SegInit ==
    /\ seg_pc = "input"
    /\ seg_args \in [classifications : SegmentClassifications,
                      weeks_by_product : SegmentWeeks]
    /\ seg_out = NoValue

\* segmenter.segment(classifications, weeks_by_product=...) returns or raises
Segment ==
    /\ UNCHANGED <<evVars, apVars, jobVars, regVars, btVars, mdVars, xVars>>
    /\ seg_pc = "input"
    /\ seg_out' = segment(seg_args.classifications, seg_args.weeks_by_product)
    /\ seg_pc' = "done"
    /\ UNCHANGED seg_args

\* ========================================================== backtester
BacktestMetrics(mape) == [mape |-> mape]
Min(a, b) == IF a < b THEN a ELSE b
Abs(x) == IF x < 0 THEN 0 - x ELSE x
RECURSIVE SeqSum(_)
SeqSum(q) == IF q = <<>> THEN 0 ELSE q[1] + SeqSum(Tail(q))
RECURSIVE SeqProduct(_)
SeqProduct(q) == IF q = <<>> THEN 1 ELSE q[1] * SeqProduct(Tail(q))
SeqRange(q) == {q[i] : i \in DOMAIN q}
IsNonZero(x) == x # 0

\* moving_average_forecast: the moving average as the fraction [num, den]
moving_average_forecast(series, holdout_weeks, window) ==
    LET train == SubSeq(series, 1, Len(series) - holdout_weeks)
        effective_window == Min(window, Len(train))
    IN [num |-> SeqSum(SubSeq(train, Len(train) - effective_window + 1, Len(train))),
        den |-> effective_window]

\* compute_baseline_metrics: the MAPE of the moving average over the holdout
\* weeks with a non-zero actual value, rounded to 2 decimals
compute_baseline_metrics(series, holdout_weeks, window, tieUp) ==
    LET actual == SubSeq(series, Len(series) - holdout_weeks + 1, Len(series))
        predicted == moving_average_forecast(series, holdout_weeks, window)
        nonzero == SelectSeq(actual, IsNonZero)
        prod == SeqProduct(nonzero)
        errs == [i \in DOMAIN nonzero |->
                    Abs(nonzero[i] * predicted.den - predicted.num) * (prod \div nonzero[i])]
    IN IF nonzero = <<>> THEN BacktestMetrics(0)
       ELSE BacktestMetrics(RoundDiv(SeqSum(errs) * 100 * PercentUnit,
                                     predicted.den * prod * Len(nonzero),
                                     Fmt2Step, tieUp))

ClassMetrics(classe_abc, avg_mape, product_count) ==
    [classe_abc |-> classe_abc, avg_mape |-> avg_mape, product_count |-> product_count]

\* class_by_product.get(pid, "C")
ClassOf(class_by_product, pid) ==
    IF pid \in DOMAIN class_by_product THEN class_by_product[pid] ELSE "C"

\* aggregate_by_class: one ClassMetrics per class that has a product
aggregate_by_class(per_product_metrics, class_by_product, tieUp) ==
    LET bucket(cls) == {pid \in DOMAIN per_product_metrics :
                           ClassOf(class_by_product, pid) = cls}
        classes == {ClassOf(class_by_product, pid) : pid \in DOMAIN per_product_metrics}
    IN [cls \in classes |->
          ClassMetrics(cls,
                       RoundDiv(SumOver([pid \in bucket(cls) |->
                                            per_product_metrics[pid].mape], bucket(cls)),
                                Cardinality(bucket(cls)), Fmt2Step, tieUp),
                       Cardinality(bucket(cls)))]

BaselineComparison(produto_id, model_name, model_mape, baseline_mape) ==
    [produto_id |-> produto_id, model_name |-> model_name,
     model_mape |-> model_mape, baseline_mape |-> baseline_mape,
     mape_improvement |-> baseline_mape - model_mape,
     model_beats_baseline |-> baseline_mape - model_mape > 0]

\* compare_against_baseline: one comparison per product of model_metrics that
\* the baseline knows, in the order `keys` of the model's dict
RECURSIVE compare_against_baseline(_, _, _, _)
compare_against_baseline(model_metrics, baseline_metrics, model_name, keys) ==
    IF keys = <<>> THEN <<>>
    ELSE LET pid == keys[1]
             rest == compare_against_baseline(model_metrics, baseline_metrics,
                                              model_name, Tail(keys))
         IN IF pid \in DOMAIN baseline_metrics
            THEN <<BaselineComparison(pid, model_name, model_metrics[pid].mape,
                                      baseline_metrics[pid].mape)>> \o rest
            ELSE rest

BacktestResult(per_product, per_class, baseline_comparisons, products_tested) ==
    [per_product |-> per_product, per_class |-> per_class,
     baseline_comparisons |-> baseline_comparisons,
     products_tested |-> products_tested]

\* dict[key] = value
DictPut(d, key, value) ==
    [k \in DOMAIN d \cup {key} |-> IF k = key THEN value ELSE d[k]]

\* Arguments of one run call
HoldoutWeeks == {1, 2}
BacktestModelNames == <<"ETS", "TFT", "LGBM">>
BacktestModelLists == {SubSeq(BacktestModelNames, 1, n) : n \in 0..Len(BacktestModelNames)}
IdLists ==
    UNION {{ids \in [1..n -> Products] :
              \A i, j \in 1..n : i # j => ids[i] # ids[j]} : n \in 0..MaxProducts}
\* A weekly series of n values: 1, 2, ..., n
SeriesOfLen(n) == [i \in 1..n |-> i]
SeriesDicts == Dicts(Products, {SeriesOfLen(n) : n \in 0..MaxSeriesLen})
ClassDicts == {<<>>, [pid \in {1} |-> "A"]}
RunArgs ==
    [holdout_weeks : HoldoutWeeks, models : BacktestModelLists, produto_ids : IdLists,
     series_by_product : SeriesDicts, class_by_product : ClassDicts]

\* MAPE values a model's backtest reports
ModelMapes == {50 * PercentUnit}
\* What model.backtest(valid_pids, ...) may do: raise, or return metrics for
\* all, one or none of the products it was asked for
BacktestOutcomes(valid_pids) ==
    {[kind |-> "raises"], [kind |-> "returns", metrics |-> <<>>]}
    \cup {[kind |-> "returns", metrics |-> [pid \in S |-> BacktestMetrics(m)]] :
            S \in {SeqRange(valid_pids), {valid_pids[1]}}, m \in ModelMapes}

\* Mutant: a series exactly holdout_weeks long is kept
ValidPids_AtLeast(produto_ids, series_by_product, holdout_weeks) ==
    LET keep(pid) == /\ pid \in DOMAIN series_by_product
                     /\ Len(series_by_product[pid]) >= holdout_weeks
    IN SelectSeq(produto_ids, keep)

\* valid_pids = [pid for pid in produto_ids if pid in series_by_product
\*               and len(series_by_product[pid]) > holdout_weeks]
ValidPids(produto_ids, series_by_product, holdout_weeks) ==
    LET keep(pid) == /\ pid \in DOMAIN series_by_product
                     /\ Len(series_by_product[pid]) > holdout_weeks
    IN SelectSeq(produto_ids, keep)

BtIdle ==
    /\ bt_pc = "idle" /\ bt_args = NoValue /\ bt_loc = NoValue
    /\ bt_result = NoValue /\ bt_calls = <<>>
BtInit ==
    /\ bt_pc = "input" /\ bt_args \in RunArgs /\ bt_loc = NoValue
    /\ bt_result = NoValue /\ bt_calls = <<>>

\* run, up to the early return: the filter and products_tested
BtFilter ==
    /\ UNCHANGED <<evVars, apVars, jobVars, regVars, segVars, mdVars, xVars>>
    /\ bt_pc = "input"
    /\ LET valid_pids == ValidPids(bt_args.produto_ids, bt_args.series_by_product,
                                   bt_args.holdout_weeks)
       IN /\ bt_result' = BacktestResult(<<>>, <<>>, <<>>, Len(valid_pids))
          /\ bt_loc' = [valid_pids |-> valid_pids, baseline_metrics |-> <<>>, idx |-> 1]
          /\ bt_pc' = IF valid_pids = <<>> THEN "done" ELSE "baseline"
    /\ UNCHANGED <<bt_args, bt_calls>>

\* Mutant: the baseline is computed only when there is a model to compare
BtBaseline_OnlyWithModels ==
    /\ UNCHANGED <<evVars, apVars, jobVars, regVars, segVars, mdVars, xVars>>
    /\ bt_pc = "baseline"
    /\ \E tieUp \in BOOLEAN :
         LET baseline_metrics ==
                 [pid \in SeqRange(bt_loc.valid_pids) |->
                     compute_baseline_metrics(bt_args.series_by_product[pid],
                                              bt_args.holdout_weeks, BASELINE_WINDOW, tieUp)]
         IN /\ bt_loc' = [bt_loc EXCEPT !.baseline_metrics = baseline_metrics]
            /\ bt_result' =
                 IF bt_args.models = <<>> THEN bt_result
                 ELSE [bt_result EXCEPT
                         !.per_product = DictPut(@, "BASELINE", baseline_metrics),
                         !.per_class = DictPut(@, "BASELINE",
                             aggregate_by_class(baseline_metrics, bt_args.class_by_product,
                                                tieUp))]
    /\ bt_pc' = "models"
    /\ UNCHANGED <<bt_args, bt_calls>>

\* The baseline metrics of every valid product and their per-class averages
BtBaseline ==
    /\ UNCHANGED <<evVars, apVars, jobVars, regVars, segVars, mdVars, xVars>>
    /\ bt_pc = "baseline"
    /\ \E tieUp \in BOOLEAN :
         LET baseline_metrics ==
                 [pid \in SeqRange(bt_loc.valid_pids) |->
                     compute_baseline_metrics(bt_args.series_by_product[pid],
                                              bt_args.holdout_weeks, BASELINE_WINDOW, tieUp)]
         IN /\ bt_loc' = [bt_loc EXCEPT !.baseline_metrics = baseline_metrics]
            /\ bt_result' =
                 [bt_result EXCEPT
                    !.per_product = DictPut(@, "BASELINE", baseline_metrics),
                    !.per_class = DictPut(@, "BASELINE",
                        aggregate_by_class(baseline_metrics, bt_args.class_by_product, tieUp))]
    /\ bt_pc' = "models"
    /\ UNCHANGED <<bt_args, bt_calls>>

\* Mutant: a model without metrics still gets its (empty) entries
AfterBacktest_KeepEmpty(res, model_name, model_metrics, tieUp) ==
    [res EXCEPT
       !.per_product = DictPut(@, model_name, model_metrics),
       !.per_class = DictPut(@, model_name,
           aggregate_by_class(model_metrics, bt_args.class_by_product, tieUp)),
       !.baseline_comparisons = @ \o
           compare_against_baseline(model_metrics, bt_loc.baseline_metrics, model_name,
               SelectSeq(bt_loc.valid_pids, LAMBDA pid : pid \in DOMAIN model_metrics))]

\* What run does with the metrics a model returned: nothing when there are
\* none, else the per-product and per-class entries and the comparisons
AfterBacktest(res, model_name, model_metrics, tieUp) ==
    IF DOMAIN model_metrics = {} THEN res
    ELSE [res EXCEPT
            !.per_product = DictPut(@, model_name, model_metrics),
            !.per_class = DictPut(@, model_name,
                aggregate_by_class(model_metrics, bt_args.class_by_product, tieUp)),
            !.baseline_comparisons = @ \o
                compare_against_baseline(model_metrics, bt_loc.baseline_metrics,
                    model_name,
                    SelectSeq(bt_loc.valid_pids, LAMBDA pid : pid \in DOMAIN model_metrics))]

\* One iteration of the loop over models.items()
BtModel ==
    /\ UNCHANGED <<evVars, apVars, jobVars, regVars, segVars, mdVars, xVars>>
    /\ bt_pc = "models"
    /\ bt_loc.idx <= Len(bt_args.models)
    /\ LET model_name == bt_args.models[bt_loc.idx]
       IN \E outcome \in BacktestOutcomes(bt_loc.valid_pids), tieUp \in BOOLEAN :
            IF outcome.kind = "raises"
            THEN /\ bt_calls' = Append(bt_calls,
                     [model_name |-> model_name, outcome |-> "raised", metrics |-> <<>>])
                 /\ bt_pc' = "raised"
                 /\ UNCHANGED <<bt_result, bt_loc>>
            ELSE /\ bt_calls' = Append(bt_calls,
                     [model_name |-> model_name, outcome |-> "returned",
                      metrics |-> outcome.metrics])
                 /\ bt_result' = AfterBacktest(bt_result, model_name, outcome.metrics, tieUp)
                 /\ bt_loc' = [bt_loc EXCEPT !.idx = @ + 1]
                 /\ UNCHANGED bt_pc
    /\ UNCHANGED bt_args

\* return result
BtReturn ==
    /\ UNCHANGED <<evVars, apVars, jobVars, regVars, segVars, mdVars, xVars>>
    /\ bt_pc = "models"
    /\ bt_loc.idx > Len(bt_args.models)
    /\ bt_pc' = "done"
    /\ UNCHANGED <<bt_args, bt_loc, bt_result, bt_calls>>

\* ---------------------------------------------- Backtester.collect_metadata
ModelMetadata(model_name, version, training_metrics, is_champion) ==
    [model_name |-> model_name, version |-> version,
     training_metrics |-> training_metrics, is_champion |-> is_champion]
MapeSum(per_product) ==
    SumOver([p \in DOMAIN per_product |-> per_product[p].mape], DOMAIN per_product)

\* f"New MAPE ({model_avg_mape:.2f}%) {op} Champion ({champ_mape:.2f}%)"
MetadataReason(op, per_product, champ_mape, tieUp) ==
    <<"New MAPE",
      RoundDiv(MapeSum(per_product), Cardinality(DOMAIN per_product), Fmt2Step, tieUp),
      op, "Champion", RoundDiv(champ_mape, 1, Fmt2Step, tieUp)>>

\* The champion_mapes branch of collect_metadata for one model:
\* [is_champion, promotion_log]; model_avg_mape is compared as it is
ChampionComparison(per_product, champ_mape, tieUp) ==
    LET has == DOMAIN per_product # {}
        n == Cardinality(DOMAIN per_product)
        is_champion == /\ has
                       /\ \/ champ_mape = NoValue
                          \/ MapeSum(per_product) < champ_mape[1] * n
        reason == IF ~has THEN <<"No backtest metrics available">>
                  ELSE IF champ_mape = NoValue
                  THEN <<"No existing champion - auto-promoted">>
                  ELSE MetadataReason(IF is_champion THEN "<" ELSE ">=",
                                      per_product, champ_mape[1], tieUp)
    IN [is_champion |-> is_champion,
        promotion_log |->
            [promoted |-> is_champion,
             new_mape |-> IF has THEN RoundDiv(MapeSum(per_product), n, Round4Step, tieUp)
                          ELSE 0,
             champion_mape |-> champ_mape,
             reason |-> reason]]

\* The baseline-only branch: the model's average against the baseline's
BaselineOnlyComparison(per_product, baseline_per_product) ==
    /\ DOMAIN per_product # {}
    /\ DOMAIN baseline_per_product # {}
    /\ MapeSum(per_product) * Cardinality(DOMAIN baseline_per_product)
          < MapeSum(baseline_per_product) * Cardinality(DOMAIN per_product)

\* One iteration of the loop of collect_metadata; champion_mapes is NoValue
\* (None) or Some(dict), the dict giving NoValue or Some(mape) for a model name
MetadataFor(model_name, per_product_all, champion_mapes, tieUp) ==
    LET per_product == DictGet(per_product_all, model_name)
        n == Cardinality(DOMAIN per_product)
        training_metrics == [avg_mape |-> RoundDiv(MapeSum(per_product), n, Fmt2Step, tieUp),
                             products_tested |-> n]
    IN IF champion_mapes # NoValue
       THEN LET champ_mape == IF model_name \in DOMAIN champion_mapes[1]
                              THEN champion_mapes[1][model_name] ELSE NoValue
                cmp == ChampionComparison(per_product, champ_mape, tieUp)
            IN ModelMetadata(model_name, 1,
                   IF n > 0
                   THEN [avg_mape |-> training_metrics.avg_mape,
                         products_tested |-> n,
                         promotion_log |-> cmp.promotion_log]
                   ELSE NoValue,
                   cmp.is_champion)
       ELSE ModelMetadata(model_name, 1,
                IF n > 0 THEN training_metrics ELSE NoValue,
                BaselineOnlyComparison(per_product, DictGet(per_product_all, "BASELINE")))

collect_metadata(models, per_product_all, champion_mapes, tieUp) ==
    [i \in DOMAIN models |-> MetadataFor(models[i], per_product_all, champion_mapes, tieUp)]

\* Arguments of one collect_metadata call
MetadataModels == {<<"TFT">>, <<"TFT", "ETS">>}
ChampionMapes ==
    {NoValue, Some(<<>>), Some([m \in {"TFT"} |-> NoValue])}
    \cup {Some([m \in {"TFT"} |-> Some(c)]) : c \in MapeValues}
BaselineDicts == {<<>>, [p \in {1} |-> BacktestMetrics(MaxMape)]}
MetadataPerProduct ==
    {[m \in {"TFT", "BASELINE"} |-> IF m = "TFT" THEN d ELSE b] :
        d \in InnerDicts, b \in BaselineDicts}

MdIdle == md_pc = "idle" /\ md_args = NoValue /\ md_out = NoValue
MdInit ==
    /\ md_pc = "input"
    /\ md_args \in [models : MetadataModels, per_product : MetadataPerProduct,
                    champion_mapes : ChampionMapes]
    /\ md_args.champion_mapes # NoValue => md_args.per_product["BASELINE"] = <<>>
    /\ md_out = NoValue

\* backtester.collect_metadata(models, backtest_result, champion_mapes) returns
CollectMetadata ==
    /\ UNCHANGED <<evVars, apVars, jobVars, regVars, segVars, btVars, xVars>>
    /\ md_pc = "input"
    /\ \E tieUp \in BOOLEAN :
          md_out' = collect_metadata(md_args.models, md_args.per_product,
                                     md_args.champion_mapes, tieUp)
    /\ md_pc' = "done"
    /\ UNCHANGED md_args

\* ===================================================== pipeline and job
TOTAL_STEPS == 10
JobTypes == {"train_model", "run_forecast", "run_backtest", "unknown"}
PipelineJobs == {"run_forecast", "run_backtest"}

StepLog(step_number, step_name, status, products_processed, error_message) ==
    [step_number |-> step_number, step_name |-> step_name, status |-> status,
     products_processed |-> products_processed, error_message |-> error_message]

\* Mutant: the ETS step runs before the TFT step
model_steps_EtsFirst ==
    << [step_num |-> 3, step_name |-> "execute_ets", model_names |-> <<"ETS">>],
       [step_num |-> 4, step_name |-> "execute_tft", model_names |-> <<"TFT", "TFT_REVENUE">>],
       [step_num |-> 5, step_name |-> "execute_croston_tsb",
        model_names |-> <<"CROSTON", "TSB", "SBA">>],
       [step_num |-> 6, step_name |-> "execute_lgbm_ensemble",
        model_names |-> <<"LGBM", "ENSEMBLE">>] >>

\* model_steps of ForecastPipeline.execute
model_steps ==
    << [step_num |-> 3, step_name |-> "execute_tft", model_names |-> <<"TFT", "TFT_REVENUE">>],
       [step_num |-> 4, step_name |-> "execute_ets", model_names |-> <<"ETS">>],
       [step_num |-> 5, step_name |-> "execute_croston_tsb",
        model_names |-> <<"CROSTON", "TSB", "SBA">>],
       [step_num |-> 6, step_name |-> "execute_lgbm_ensemble",
        model_names |-> <<"LGBM", "ENSEMBLE">>] >>

\* PipelineConfig built by _process_forecast / _process_backtest
include_revenue(job_type) == job_type = "run_forecast"
include_backtest(job_type) == job_type = "run_backtest"
\* progress_callback is handed to execute by _process_forecast only
has_progress_callback(job_type) == job_type = "run_forecast"

\* ProgressEvent built by on_step and by process (status defaults to "running")
ProgressEvent(step, total_steps, step_name, percent, products_processed, products_total) ==
    [step |-> step, total_steps |-> total_steps, step_name |-> step_name,
     percent |-> percent, products_processed |-> products_processed,
     products_total |-> products_total, status |-> "running"]

\* await progress_callback(step_num, step_name, products) when one was given
OnStep(rep, job_type, series_count, step_num, step_name, products) ==
    IF has_progress_callback(job_type)
    THEN [rep EXCEPT !.events = Append(@,
            ProgressEvent(step_num, TOTAL_STEPS, step_name,
                          (step_num * 100) \div TOTAL_STEPS, products, series_count))]
    ELSE rep

\* sum(len(s.produto_ids) for s in segments.values())
SegmentTotal(segments) ==
    SumOver([m \in DOMAIN segments |-> Len(segments[m].produto_ids)], DOMAIN segments)

\* Inputs of a job: classification records for products 1..n in list order
Classifications ==
    [classe_abc : {"A", "Z"}, padrao_demanda : {"REGULAR", "INTERMITENTE", "LUMPY"},
     modelo_forecast_sugerido : {NoName, "SBA"}]
ClassificationLists ==
    UNION {{[i \in 1..n |-> [produto_id |-> i,
                             classe_abc |-> f[i].classe_abc,
                             padrao_demanda |-> f[i].padrao_demanda,
                             modelo_forecast_sugerido |-> f[i].modelo_forecast_sugerido]] :
              f \in [1..n -> Classifications]} : n \in 0..MaxSkus}
WeeksInputs == {NoValue, [p \in 1..MaxSkus |-> MIN_WEEKS_FOR_COMPLEX - 1]}
PriceInputs == {NoValue, [p \in {1} |-> 250]}          \* hundredths: 2.50
TrainModelLists ==
    UNION {{[i \in 1..n |-> <<"NAIVE", "ETS", "TFT">>[i]]} : n \in 0..MaxTrainModels}

\* Quantile tuples a fitted model's predict may return (hundredths)
ForecastQuantiles(p10, p25, p50, p75, p90) ==
    [p10 |-> p10, p25 |-> p25, p50 |-> p50, p75 |-> p75, p90 |-> p90]
PredictedQuantiles == {ForecastQuantiles(100, 100, 100, 100, 100),
                       ForecastQuantiles(101, 102, 103, 104, 105)}
\* What self._models.get(name) and the model's predict do for one step model:
\* not configured, predict raises, or predict returns one result per product
\* (empty quantiles when the model is not fitted)
PredictOutcomes ==
    {[kind |-> "absent"], [kind |-> "raises"], [kind |-> "returns", quantiles |-> <<>>]}
    \cup {[kind |-> "returns", quantiles |-> <<q>>] : q \in PredictedQuantiles}

JobIdle ==
    /\ job_pc = "idle"
    /\ inp = NoValue
    /\ reporter = [events |-> <<>>, completions |-> <<>>, failures |-> <<>>]
    /\ result = NoValue
    /\ ex = NoValue
    /\ tr = NoValue
    /\ calls = <<>>
    /\ raised = NoError
    /\ job_result = NoValue

\* JobProcessor.process(job, series_by_product, classifications, ...) is entered
ProcessCall ==
    /\ UNCHANGED <<evVars, apVars, libVars>>
    /\ job_pc = "idle"
    /\ \E jt \in JobTypes, cls \in ClassificationLists, w \in WeeksInputs,
          pr \in PriceInputs, n \in {0, MaxSkus}, ms \in TrainModelLists,
          md \in {NoName, "ETS"} :
        /\ jt \notin PipelineJobs => cls = <<>> /\ w = NoValue
        /\ jt # "run_forecast" => pr = NoValue
        /\ jt # "train_model" => ms = <<>> /\ md = NoName
        /\ inp' = [job_type |-> jt, modelo |-> md, classifications |-> cls,
                   weeks_by_product |-> w, prices_by_product |-> pr,
                   series_count |-> n, models |-> ms]
    /\ job_pc' = "init"
    /\ UNCHANGED <<reporter, result, ex, tr, calls, raised, job_result>>

\* Mutant: the dispatch happens without the step-0 event
ProcessInit_Silent ==
    /\ UNCHANGED <<evVars, apVars, libVars>>
    /\ job_pc = "init"
    /\ UNCHANGED reporter
    /\ IF inp.job_type = "train_model"
       THEN /\ job_pc' = "train"
            /\ tr' = [idx |-> 1, step |-> 1]
            /\ UNCHANGED <<result, raised>>
       ELSE IF inp.job_type \in PipelineJobs
       THEN /\ job_pc' = "step1"
            /\ result' = [steps |-> <<>>, forecast_results |-> <<>>,
                          revenue_results |-> <<>>, backtest_result |-> NoValue,
                          total_products |-> 0, status |-> "RUNNING"]
            /\ UNCHANGED <<tr, raised>>
       ELSE /\ job_pc' = "raised"
            /\ raised' = <<"Unknown job type", inp.job_type>>
            /\ UNCHANGED <<tr, result>>
    /\ UNCHANGED <<inp, ex, calls, job_result>>

\* The step-0 event, then the dispatch on job.job_type
ProcessInit ==
    /\ UNCHANGED <<evVars, apVars, libVars>>
    /\ job_pc = "init"
    /\ reporter' = [reporter EXCEPT !.events = Append(@,
            ProgressEvent(0, TOTAL_STEPS, "initializing", 0, 0, inp.series_count))]
    /\ IF inp.job_type = "train_model"
       THEN /\ job_pc' = "train"
            /\ tr' = [idx |-> 1, step |-> 1]
            /\ UNCHANGED <<result, raised>>
       ELSE IF inp.job_type \in PipelineJobs
       THEN /\ job_pc' = "step1"
            /\ result' = [steps |-> <<>>, forecast_results |-> <<>>,
                          revenue_results |-> <<>>, backtest_result |-> NoValue,
                          total_products |-> 0, status |-> "RUNNING"]
            /\ UNCHANGED <<tr, raised>>
       ELSE /\ job_pc' = "raised"
            /\ raised' = <<"Unknown job type", inp.job_type>>
            /\ UNCHANGED <<tr, result>>
    /\ UNCHANGED <<inp, ex, calls, job_result>>

\* str(e) of an exception raised without a message (TimeoutError(), ...)
EMPTY_MESSAGE == <<"">>
\* str(e) of the exceptions a model's train may raise
TrainErrors(model_name) == {EMPTY_MESSAGE, <<model_name, "train raised">>}

\* _process_train: one iteration of the loop over self._models
TrainIter ==
    /\ UNCHANGED <<evVars, apVars, libVars>>
    /\ job_pc = "train"
    /\ tr.idx <= Len(inp.models)
    /\ LET model_name == inp.models[tr.idx]
       IN IF inp.modelo # NoName /\ model_name # inp.modelo
          THEN /\ tr' = [tr EXCEPT !.idx = @ + 1]
               /\ UNCHANGED <<reporter, calls, raised, job_pc>>
          ELSE /\ reporter' = [reporter EXCEPT !.events = Append(@,
                     ProgressEvent(tr.step, Len(inp.models), <<"training", model_name>>,
                                   (tr.step * 100) \div Len(inp.models), 0,
                                   inp.series_count))]
               /\ \E outcome \in {NoError} \cup TrainErrors(model_name) :
                    IF outcome = NoError
                    THEN /\ calls' = Append(calls, <<"train", model_name, "returned">>)
                         /\ tr' = [idx |-> tr.idx + 1, step |-> tr.step + 1]
                         /\ UNCHANGED <<raised, job_pc>>
                    ELSE /\ calls' = Append(calls, <<"train", model_name, "raised">>)
                         /\ raised' = outcome
                         /\ job_pc' = "raised"
                         /\ UNCHANGED tr
    /\ UNCHANGED <<inp, result, ex, job_result>>

\* _process_train returns None
TrainReturn ==
    /\ UNCHANGED <<evVars, apVars, libVars>>
    /\ job_pc = "train"
    /\ tr.idx > Len(inp.models)
    /\ job_pc' = "executed"
    /\ UNCHANGED <<inp, reporter, result, ex, tr, calls, raised, job_result>>

AppendStep(res, step) == [res EXCEPT !.steps = Append(@, step)]

\* Step 1: load_data
Step1LoadData ==
    /\ UNCHANGED <<evVars, apVars, libVars>>
    /\ job_pc = "step1"
    /\ result' = AppendStep(result,
                    StepLog(1, "load_data", "COMPLETED", inp.series_count, NoError))
    /\ reporter' = OnStep(reporter, inp.job_type, inp.series_count,
                          1, "load_data", inp.series_count)
    /\ job_pc' = "step2"
    /\ UNCHANGED <<inp, ex, tr, calls, raised, job_result>>

\* Step 2: segment_skus, with its try / except
Step2Segment ==
    /\ UNCHANGED <<evVars, apVars, libVars>>
    /\ job_pc = "step2"
    /\ LET sg == segment(inp.classifications, inp.weeks_by_product)
           total == SegmentTotal(sg.segments)
       IN IF sg.raised # NoError
          THEN /\ result' = [AppendStep(result,
                               StepLog(2, "segment_skus", "FAILED", 0, sg.raised))
                             EXCEPT !.status = "FAILED"]
               /\ job_pc' = "executed"
               /\ UNCHANGED <<reporter, ex>>
          ELSE /\ result' = [AppendStep(result,
                               StepLog(2, "segment_skus", "COMPLETED", total, NoError))
                             EXCEPT !.total_products = total]
               /\ reporter' = OnStep(reporter, inp.job_type, inp.series_count,
                                     2, "segment_skus", total)
               /\ ex' = [segments |-> sg.segments, step_idx |-> 1, model_idx |-> 1,
                         step |-> StepLog(model_steps[1].step_num,
                                          model_steps[1].step_name, "PENDING", 0, NoError),
                         products_in_step |-> 0]
               /\ job_pc' = "models"
    /\ UNCHANGED <<inp, tr, calls, raised, job_result>>

\* The results of one predict call: one ForecastResult per product of the segment
PredictResults(produto_ids, model_name, quantiles) ==
    [i \in 1..Len(produto_ids) |->
        [produto_id |-> produto_ids[i], model_name |-> model_name,
         quantiles |-> quantiles]]

\* What follows a loop iteration that did not break
AfterModel(e) ==
    IF e.model_idx < Len(model_steps[e.step_idx].model_names) THEN "models" ELSE "endstep"

\* Mutant: the failure is recorded but the loop goes on to the next model
AfterRaise_Continue(e) == AfterModel(e)

\* What a raising predict does to the loop over the step's models
\* (except Exception: ... break)
AfterRaise(e) == "endstep"

\* Steps 3-6: one iteration of `for model_name in model_names`
ModelIter ==
    /\ UNCHANGED <<evVars, apVars, libVars>>
    /\ job_pc = "models"
    /\ LET model_name == model_steps[ex.step_idx].model_names[ex.model_idx]
           next == [ex EXCEPT !.model_idx = @ + 1]
       IN IF model_name \notin DOMAIN ex.segments
          THEN /\ ex' = next
               /\ job_pc' = AfterModel(ex)
               /\ UNCHANGED <<result, calls>>
          ELSE \E o \in PredictOutcomes :
                 CASE o.kind = "absent" ->
                        /\ ex' = next
                        /\ job_pc' = AfterModel(ex)
                        /\ UNCHANGED <<result, calls>>
                   [] o.kind = "returns" ->
                        /\ calls' = Append(calls, <<"predict", model_name, "returned">>)
                        /\ result' = [result EXCEPT !.forecast_results =
                              @ \o PredictResults(ex.segments[model_name].produto_ids,
                                                  model_name, o.quantiles)]
                        /\ ex' = [next EXCEPT !.products_in_step =
                              @ + Len(ex.segments[model_name].produto_ids)]
                        /\ job_pc' = AfterModel(ex)
                   [] o.kind = "raises" ->
                        /\ calls' = Append(calls, <<"predict", model_name, "raised">>)
                        /\ ex' = [next EXCEPT !.step.status = "FAILED",
                                              !.step.error_message =
                                                  <<model_name, "predict raised">>]
                        /\ job_pc' = AfterRaise(ex)
                        /\ UNCHANGED result
    /\ UNCHANGED <<inp, reporter, tr, raised, job_result>>

\* Steps 3-6: the step is logged and reported, the next step begins
EndModelStep ==
    /\ UNCHANGED <<evVars, apVars, libVars>>
    /\ job_pc = "endstep"
    /\ LET status == IF ex.step.status = "FAILED" THEN "FAILED"
                     ELSE IF ex.products_in_step > 0 THEN "COMPLETED" ELSE "SKIPPED"
           step == [ex.step EXCEPT !.status = status,
                                   !.products_processed = ex.products_in_step]
       IN /\ result' = AppendStep(result, step)
          /\ reporter' = OnStep(reporter, inp.job_type, inp.series_count,
                                step.step_number, step.step_name, ex.products_in_step)
    /\ IF ex.step_idx < Len(model_steps)
       THEN /\ ex' = [ex EXCEPT !.step_idx = @ + 1, !.model_idx = 1,
                        !.step = StepLog(model_steps[ex.step_idx + 1].step_num,
                                         model_steps[ex.step_idx + 1].step_name,
                                         "PENDING", 0, NoError),
                        !.products_in_step = 0]
            /\ job_pc' = "models"
       ELSE /\ ex' = ex
            /\ job_pc' = "step7"
    /\ UNCHANGED <<inp, tr, calls, raised, job_result>>

\* Decimal(str(round(float(q) * price, 2))) with q and price in hundredths
RevenueValue(q, price, tieUp) == RoundDiv(q * price, 100, 1, tieUp)

RevenueQuantiles(q, price, tieUp) ==
    ForecastQuantiles(RevenueValue(q.p10, price, tieUp), RevenueValue(q.p25, price, tieUp),
                      RevenueValue(q.p50, price, tieUp), RevenueValue(q.p75, price, tieUp),
                      RevenueValue(q.p90, price, tieUp))

\* Mutant: a forecast with empty quantiles still gets a revenue result
RevenueResults_KeepEmpty(forecast_results, i, prices, tieUp) ==
    LET Priced(fr) == fr.produto_id \in DOMAIN prices
        src == SelectSeq(forecast_results, Priced)
    IN [k \in 1..Len(src) |->
           [produto_id |-> src[k].produto_id,
            model_name |-> <<src[k].model_name, "_REVENUE">>,
            quantiles |-> [j \in 1..Len(src[k].quantiles) |->
                RevenueQuantiles(src[k].quantiles[j], prices[src[k].produto_id], tieUp)]]]

\* The loop of step 7 over result.forecast_results, from index i on
RECURSIVE RevenueResults(_, _, _, _)
RevenueResults(forecast_results, i, prices, tieUp) ==
    IF i > Len(forecast_results) THEN <<>>
    ELSE LET fr == forecast_results[i]
             rest == RevenueResults(forecast_results, i + 1, prices, tieUp)
         IN IF fr.produto_id \notin DOMAIN prices \/ fr.quantiles = <<>>
            THEN rest
            ELSE <<[produto_id |-> fr.produto_id,
                    model_name |-> <<fr.model_name, "_REVENUE">>,
                    quantiles |-> [k \in 1..Len(fr.quantiles) |->
                        RevenueQuantiles(fr.quantiles[k], prices[fr.produto_id], tieUp)]]>>
                 \o rest

\* Step 7: calculate_revenue
Step7Revenue ==
    /\ UNCHANGED <<evVars, apVars, libVars>>
    /\ job_pc = "step7"
    /\ IF include_revenue(inp.job_type) /\ inp.prices_by_product # NoValue
       THEN \E tieUp \in BOOLEAN :
              LET revenue == RevenueResults(result.forecast_results, 1,
                                            inp.prices_by_product, tieUp)
              IN result' = [AppendStep(result,
                              StepLog(7, "calculate_revenue", "COMPLETED",
                                      Len(revenue), NoError))
                            EXCEPT !.revenue_results = @ \o revenue]
       ELSE result' = AppendStep(result,
                        StepLog(7, "calculate_revenue", "SKIPPED", 0, NoError))
    /\ job_pc' = "step8"
    /\ UNCHANGED <<inp, reporter, ex, tr, calls, raised, job_result>>

\* Step 8: calculate_metrics, Backtester.run inside try / except
Step8Metrics ==
    /\ UNCHANGED <<evVars, apVars, libVars>>
    /\ job_pc = "step8"
    /\ IF include_backtest(inp.job_type) /\ inp.series_count > 0 /\ result.total_products > 0
       THEN \/ /\ calls' = Append(calls, <<"backtest", "all models", "returned">>)
               /\ \E tested \in {0, result.total_products} :
                    result' = [AppendStep(result,
                                 StepLog(8, "calculate_metrics", "COMPLETED", tested, NoError))
                               EXCEPT !.backtest_result = [products_tested |-> tested]]
            \/ /\ calls' = Append(calls, <<"backtest", "all models", "raised">>)
               /\ result' = AppendStep(result,
                                StepLog(8, "calculate_metrics", "FAILED", 0,
                                        <<"all models", "backtest raised">>))
       ELSE /\ result' = AppendStep(result,
                             StepLog(8, "calculate_metrics", "SKIPPED", 0, NoError))
            /\ UNCHANGED calls
    /\ job_pc' = "step9"
    /\ UNCHANGED <<inp, reporter, ex, tr, raised, job_result>>

\* Step 9: collect_results
Step9Collect ==
    /\ UNCHANGED <<evVars, apVars, libVars>>
    /\ job_pc = "step9"
    /\ result' = AppendStep(result,
                    StepLog(9, "collect_results", "COMPLETED",
                            Len(result.forecast_results), NoError))
    /\ job_pc' = "step10"
    /\ UNCHANGED <<inp, reporter, ex, tr, calls, raised, job_result>>

\* Mutant: the result is returned without its final status
Step10Finalize_StaysRunning ==
    /\ UNCHANGED <<evVars, apVars, libVars>>
    /\ job_pc = "step10"
    /\ result' = AppendStep(result, StepLog(10, "finalize", "COMPLETED", 0, NoError))
    /\ job_pc' = "executed"
    /\ UNCHANGED <<inp, reporter, ex, tr, calls, raised, job_result>>

\* Step 10: finalize; execute returns the result
Step10Finalize ==
    /\ UNCHANGED <<evVars, apVars, libVars>>
    /\ job_pc = "step10"
    /\ result' = [AppendStep(result, StepLog(10, "finalize", "COMPLETED", 0, NoError))
                  EXCEPT !.status = "COMPLETED"]
    /\ job_pc' = "executed"
    /\ UNCHANGED <<inp, reporter, ex, tr, calls, raised, job_result>>

JobResult(success, pipeline_result, error) ==
    [success |-> success, pipeline_result |-> pipeline_result, error |-> error]

\* The handler returned to process: report_completed, JobResult(success=True)
ProcessComplete ==
    /\ UNCHANGED <<evVars, apVars, libVars>>
    /\ job_pc = "executed"
    /\ reporter' = [reporter EXCEPT !.completions = Append(@, "completed")]
    /\ job_result' = JobResult(TRUE, result, NoError)
    /\ job_pc' = "done"
    /\ UNCHANGED <<inp, result, ex, tr, calls, raised>>

\* Mutant: the failure handler also reports completion
ProcessFail_AlsoCompleted ==
    /\ UNCHANGED <<evVars, apVars, libVars>>
    /\ job_pc = "raised"
    /\ reporter' = [reporter EXCEPT !.failures = Append(@, [error |-> raised, step |-> 0]),
                                    !.completions = Append(@, "completed")]
    /\ job_result' = [success |-> FALSE, pipeline_result |-> NoValue, error |-> raised]
    /\ job_pc' = "done"
    /\ UNCHANGED <<inp, result, ex, tr, calls, raised>>

\* except Exception: report_failed(job_id, str(e), 0), JobResult(success=False)
ProcessFail ==
    /\ UNCHANGED <<evVars, apVars, libVars>>
    /\ job_pc = "raised"
    /\ reporter' = [reporter EXCEPT !.failures = Append(@, [error |-> raised, step |-> 0])]
    /\ job_result' = JobResult(FALSE, NoValue, raised)
    /\ job_pc' = "done"
    /\ UNCHANGED <<inp, result, ex, tr, calls, raised>>

\* ------------------- ChampionChallengerService.collect_metadata_with_champion
\* ForecastModelo.metricas_treino of a stored row: NULL, {} or a dict that may
\* hold "avg_mape"
ChampionMetrics ==
    {NoValue, Some(<<>>), Some([avg_mae |-> 0])}
        \cup {Some([avg_mape |-> (MaxMape \div 2) * PercentUnit])}

\* created_at of the rows of one store: rows are inserted in id order
CreatedOf(id) == IF id < MaxCreated THEN id ELSE MaxCreated

\* Stored rows with their training metrics; only the metrics of rows flagged
\* champion are ever read
MetricRows(id) ==
    {[tipo_modelo |-> f, is_champion |-> FALSE, created_at |-> CreatedOf(id),
      metricas_treino |-> NoValue] : f \in Families}
        \cup {[tipo_modelo |-> f, is_champion |-> TRUE, created_at |-> CreatedOf(id),
               metricas_treino |-> mt] : f \in Families, mt \in ChampionMetrics}
MetricStores == {st \in [ModelIds -> UNION {MetricRows(id) : id \in ModelIds}] :
                    \A id \in ModelIds : st[id] \in MetricRows(id)}

\* if current_champion and current_champion.metricas_treino:
\*     champion_mape = current_champion.metricas_treino.get("avg_mape")
champion_mape_of_Zero(st, champion_id) ==
    IF champion_id = NoId THEN NoValue
    ELSE LET mt == st[champion_id].metricas_treino
         IN IF mt = NoValue THEN Some(0)
            ELSE IF "avg_mape" \in DOMAIN mt[1] THEN Some(mt[1].avg_mape) ELSE Some(0)
champion_mape_of(st, champion_id) ==
    IF champion_id = NoId THEN NoValue
    ELSE LET mt == st[champion_id].metricas_treino
         IN IF mt = NoValue THEN NoValue
            ELSE IF DOMAIN mt[1] = {} THEN NoValue
            ELSE IF "avg_mape" \in DOMAIN mt[1] THEN Some(mt[1].avg_mape) ELSE NoValue

\* promotion_log = {promoted, new_mape, champion_mape, reason, decided_at}
PromotionLogDict(decision, decided_at) ==
    [promoted |-> decision.promoted, new_mape |-> decision.new_mape,
     champion_mape |-> decision.champion_mape, reason |-> decision.reason,
     decided_at |-> decided_at]

\* The ModelMetadata appended for one model: training_metrics is None without
\* per-product metrics, and the promotion_log is put inside training_metrics
\* only when training_metrics is not None
MetadataWithChampion_BaselineFlag(model_name, per_product, decision, decided_at, tieUp) ==
    LET n == Cardinality(DOMAIN per_product)
    IN ModelMetadata(model_name, 1,
           IF n > 0
           THEN [avg_mape |-> RoundDiv(MapeSum(per_product), n, Fmt2Step, tieUp),
                 products_tested |-> n,
                 promotion_log |-> PromotionLogDict(decision, decided_at)]
           ELSE NoValue,
           n > 0)
MetadataWithChampion(model_name, per_product, decision, decided_at, tieUp) ==
    LET n == Cardinality(DOMAIN per_product)
    IN ModelMetadata(model_name, 1,
           IF n > 0
           THEN [avg_mape |-> RoundDiv(MapeSum(per_product), n, Fmt2Step, tieUp),
                 products_tested |-> n,
                 promotion_log |-> PromotionLogDict(decision, decided_at)]
           ELSE NoValue,
           decision.promoted)

\* backtest_result.per_product of the calls considered: the model "TFT" has
\* no product or has one product; "ETS" is never backtested
ChampionPerProducts ==
    {[TFT |-> <<>>]}
        \cup {[TFT |-> [p \in {1} |-> [mape |-> m]]] : m \in {PercentUnit, MaxMape * PercentUnit}}
ChampionArgs == [models : MetadataModels, per_product : ChampionPerProducts]

CmTraceEntry(op, model_name, champion_id, champion_mape, decision) ==
    [op |-> op, model_name |-> model_name, champion_id |-> champion_id,
     champion_mape |-> champion_mape, decision |-> decision]

CmIdle ==
    /\ cm_pc = "idle"
    /\ cm_args = NoValue
    /\ cm_loc = NoValue
    /\ cm_trace = <<>>
    /\ cm_out = <<>>
CmInit ==
    /\ store \in MetricStores
    /\ cm_pc = "find"
    /\ cm_args \in ChampionArgs
    /\ cm_loc = [idx |-> 1, champion_id |-> NoId, champion_mape |-> NoValue]
    /\ cm_trace = <<>>
    /\ cm_out = <<>>

\* current_champion = await self._repo.find_current_champion(model_name), then
\* the read of its metricas_treino
CmFind ==
    /\ cm_pc = "find"
    /\ cm_loc.idx <= Len(cm_args.models)
    /\ \E champion_id \in find_current_champion(store, cm_args.models[cm_loc.idx]) :
          LET champion_mape == champion_mape_of(store, champion_id)
          IN /\ cm_loc' = [cm_loc EXCEPT !.champion_id = champion_id,
                                         !.champion_mape = champion_mape]
             /\ cm_trace' = Append(cm_trace,
                    CmTraceEntry("find_current_champion", cm_args.models[cm_loc.idx],
                                 champion_id, champion_mape, NoValue))
    /\ cm_pc' = "evaluate"
    /\ UNCHANGED <<cm_args, cm_out>>
    /\ UNCHANGED cmRest

\* decision = self.evaluate(...), the promotion_log and metadata.append(...)
CmEvaluate ==
    /\ cm_pc = "evaluate"
    /\ \E tieUp \in BOOLEAN, decided_at \in 1..MaxClock :
          LET model_name == cm_args.models[cm_loc.idx]
              decision == evaluate(cm_args.per_product, model_name,
                                   cm_loc.champion_mape, tieUp)
          IN /\ cm_trace' = Append(cm_trace,
                    CmTraceEntry("evaluate", model_name, cm_loc.champion_id,
                                 cm_loc.champion_mape, Some(decision)))
             /\ cm_out' = Append(cm_out,
                    MetadataWithChampion(model_name,
                        DictGet(cm_args.per_product, model_name),
                        decision, decided_at, tieUp))
    /\ cm_loc' = [idx |-> cm_loc.idx + 1, champion_id |-> NoId, champion_mape |-> NoValue]
    /\ cm_pc' = "find"
    /\ UNCHANGED cm_args
    /\ UNCHANGED cmRest

\* return metadata
CmReturn ==
    /\ cm_pc = "find"
    /\ cm_loc.idx > Len(cm_args.models)
    /\ cm_pc' = "done"
    /\ UNCHANGED <<cm_args, cm_loc, cm_trace, cm_out>>
    /\ UNCHANGED cmRest


\* ---------------------------- apply_promotion: a repository call that raises
\* What a failing session.execute raises (the message is str(e))
RepoErrors == {<<"connection lost">>}

AfIdle == ap_raised = NoError

\* Rows whose champion flags are consistent: at most one champion per family
ChampionsConsistent(st) ==
    \A f \in Families : Cardinality(ChampionsOf(st, f)) <= 1
ConsistentStores == {st \in Stores : ChampionsConsistent(st)}

\* apply_promotion(decision, new_model_id) is entered with the id of a stored
\* model of decision.model_name's family
ApCallInFamily ==
    /\ UNCHANGED <<evVars, jobVars, libVars>>
    /\ ap_pc = "idle"
    /\ \E d \in ApDecisions, id \in ModelIds :
        /\ store[id].tipo_modelo = d.model_name
        /\ ap_decision' = d
        /\ ap_new_model_id' = id
    /\ ap_pc' = "find"
    /\ ap_champion_id' = NoId
    /\ ap_pre_store' = store
    /\ ap_repo_calls' = <<>>
    /\ ap_log' = NoValue
    /\ UNCHANGED store

\* await self._repo.demote_champion(...) raises: nothing was updated and the
\* exception leaves apply_promotion (there is no try around the call)
ApDemoteFail ==
    /\ ap_pc = "demote"
    /\ \E err \in RepoErrors : ap_raised' = err
    /\ ap_repo_calls' = Append(ap_repo_calls, <<"demote_champion", ap_decision.model_name>>)
    /\ ap_pc' = "raised"
    /\ UNCHANGED <<store, ap_decision, ap_new_model_id, ap_champion_id, ap_pre_store, ap_log>>
    /\ UNCHANGED afRest

\* Mutant: the old champion is flagged again before the error is re-raised
ApPromoteFail_Compensating ==
    /\ ap_pc = "promote"
    /\ \E err \in RepoErrors : ap_raised' = err
    /\ ap_repo_calls' = Append(ap_repo_calls, <<"promote_champion", ap_new_model_id>>)
    /\ store' = IF ap_champion_id = NoId THEN store
                ELSE promote_champion(store, ap_champion_id)
    /\ ap_pc' = "raised"
    /\ UNCHANGED <<ap_decision, ap_new_model_id, ap_champion_id, ap_pre_store, ap_log>>
    /\ UNCHANGED afRest

\* await self._repo.promote_champion(new_model_id) raises after the demotion
ApPromoteFail ==
    /\ ap_pc = "promote"
    /\ \E err \in RepoErrors : ap_raised' = err
    /\ ap_repo_calls' = Append(ap_repo_calls, <<"promote_champion", ap_new_model_id>>)
    /\ ap_pc' = "raised"
    /\ UNCHANGED <<store, ap_decision, ap_new_model_id, ap_champion_id, ap_pre_store, ap_log>>
    /\ UNCHANGED afRest

\* ------------------------- two jobs in apply_promotion for one model name
CcJobs == {1, 2}
CcIdle ==
    /\ cc_pc = NoValue
    /\ cc_args = NoValue
    /\ cc_champion_id = NoValue
    /\ cc_writes = <<>>
\* Both decisions are promoted ones for the same model_name; each job brings
\* the id of a stored model of that family
CcInit ==
    /\ store \in Stores
    /\ cc_args \in {a \in [model_name : Families, new_model_id : [CcJobs -> ModelIds]] :
                       \A j \in CcJobs :
                           store[a.new_model_id[j]].tipo_modelo = a.model_name}
    /\ cc_pc = [j \in CcJobs |-> "find"]
    /\ cc_champion_id = [j \in CcJobs |-> NoId]
    /\ cc_writes = <<>>

\* champion = await self._repo.find_current_champion(decision.model_name)
CcFind ==
    /\ \E j \in CcJobs :
        /\ cc_pc[j] = "find"
        /\ \E c \in find_current_champion(store, cc_args.model_name) :
              cc_champion_id' = [cc_champion_id EXCEPT ![j] = c]
        /\ cc_pc' = [cc_pc EXCEPT ![j] = "demote"]
    /\ UNCHANGED <<store, cc_args, cc_writes>>
    /\ UNCHANGED ccRest

\* await self._repo.demote_champion(decision.model_name)
CcDemote ==
    /\ \E j \in CcJobs :
        /\ cc_pc[j] = "demote"
        /\ cc_pc' = [cc_pc EXCEPT ![j] = "promote"]
    /\ store' = demote_champion(store, cc_args.model_name)
    /\ UNCHANGED <<cc_args, cc_champion_id, cc_writes>>
    /\ UNCHANGED ccRest

\* await self._repo.promote_champion(new_model_id)
CcPromote ==
    /\ \E j \in CcJobs :
        /\ cc_pc[j] = "promote"
        /\ store' = promote_champion(store, cc_args.new_model_id[j])
        /\ cc_writes' = Append(cc_writes, j)
        /\ cc_pc' = [cc_pc EXCEPT ![j] = "log"]
    /\ UNCHANGED <<cc_args, cc_champion_id>>
    /\ UNCHANGED ccRest

\* return PromotionLog(...)
CcReturn ==
    /\ \E j \in CcJobs :
        /\ cc_pc[j] = "log"
        /\ cc_pc' = [cc_pc EXCEPT ![j] = "returned"]
    /\ UNCHANGED <<store, cc_args, cc_champion_id, cc_writes>>
    /\ UNCHANGED ccRest

\* ------------------------------------------- concrete models: train, predict
\* The concrete models of one family each (CrostonModel stands for its three
\* variants, which share train)
ModelKinds == {"NAIVE", "CROSTON", "ETS", "LGBM", "TFT"}
TFT_INPUT_LENGTH == 52
TFT_FORECAST_HORIZON == 13
\* The shortest series train accepts: len(series) < MinLength(kind) is skipped
MinLength(kind) ==
    CASE kind = "NAIVE" -> 1
      [] kind = "CROSTON" -> 4
      [] kind = "ETS" -> 4
      [] kind = "LGBM" -> 26
      [] kind = "TFT" -> TFT_INPUT_LENGTH + TFT_FORECAST_HORIZON

\* Weekly values in hundredths; a week of net returns is negative
WeeklyValues == {0 - 100, 300}
ConstantSeries(n, v) == [i \in 1..n |-> v]
\* The series handed to train: NAIVE gets an empty series, one week, or two
\* weeks ending in net returns; the other models a constant series one week
\* short of their minimum or at it
TrainSeries(kind) ==
    IF kind = "NAIVE"
    THEN {<<>>, <<300>>, <<300, 0 - 100>>}
    ELSE {ConstantSeries(MinLength(kind) - 1, 300)}
             \cup {ConstantSeries(MinLength(kind), v) : v \in WeeklyValues}
TrainProducts == {1, 2}
TrainIdLists == {<<>>, <<1>>, <<1, 2>>, <<2, 2>>}
\* series_by_product: None (the empty dict) or series for some products
TrainSeriesDicts(kind) == Dicts(TrainProducts, TrainSeries(kind))

\* Arithmetic on quantiles is exact in units of 10^-5: a hundredth is 1000
QuantileUnit == 1000
Max(a, b) == IF a > b THEN a ELSE b
IsConstant(series) == \A i, j \in DOMAIN series : series[i] = series[j]
\* float(np.std(recent)) for the series considered: 0 for a constant series,
\* |a - b| / 2 for two weeks (lookback 12 covers both)
StdOf(series) ==
    IF IsConstant(series) THEN 0
    ELSE (Abs(series[1] - series[2]) * QuantileUnit) \div 2

\* What a model keeps for a fitted product. NAIVE: (last_value, std); the
\* other models keep the series, and what they derive from it at training
\* (Croston estimates, the statsmodels fit) is a function of that series
Fit(kind, series) ==
    IF kind = "NAIVE"
    THEN [last_value |-> series[Len(series)] * QuantileUnit, std |-> StdOf(series)]
    ELSE [series |-> series]

\* Mutant: force_retrain is taken as always set
ShouldSkip_Never(force_retrain, pid, fitted) == FALSE

\* if not force_retrain and pid in self._fitted: continue
ShouldSkip(force_retrain, pid, fitted) == ~force_retrain /\ pid \in DOMAIN fitted

\* series is None or len(series) < minimum: continue
SeriesUnusable(kind, pid, series_by_product) ==
    \/ pid \notin DOMAIN series_by_product
    \/ Len(series_by_product[pid]) < MinLength(kind)

\* The loop of train over produto_ids from index i on (LGBM and TFT test the
\* series before the fitted state, the others after: either one skips)
RECURSIVE TrainLoop(_, _, _, _, _, _)
TrainLoop(kind, fitted, produto_ids, i, force_retrain, series_by_product) ==
    IF i > Len(produto_ids) THEN fitted
    ELSE LET pid == produto_ids[i]
             next == IF ShouldSkip(force_retrain, pid, fitted) THEN fitted
                     ELSE IF SeriesUnusable(kind, pid, series_by_product) THEN fitted
                     ELSE DictPut(fitted, pid, Fit(kind, series_by_product[pid]))
         IN TrainLoop(kind, next, produto_ids, i + 1, force_retrain, series_by_product)

\* train: self._version += 1, the loop, TrainResult(model_name, version, ...)
train(kind, fitted, version, produto_ids, force_retrain, series_by_product) ==
    [fitted |-> TrainLoop(kind, fitted, produto_ids, 1, force_retrain, series_by_product),
     version |-> version + 1,
     result |-> [model_name |-> kind, version |-> version + 1]]

\* Decimal(str(round(x, 2))): hundredths from units
Round2(x, tieUp) == RoundDiv(x, QuantileUnit, 1, tieUp)

\* NaiveModel.predict, one step: offsets 1.28 std and 0.67 std around
\* last_value, the lower two floored at 0
NaiveQuantiles(params, tieUp) ==
    LET last_value == params.last_value
        std == params.std
        p10 == IF std > 0 THEN Max(last_value - (128 * std) \div 100, 0) ELSE last_value
        p25 == IF std > 0 THEN Max(last_value - (67 * std) \div 100, 0) ELSE last_value
        p75 == IF std > 0 THEN last_value + (67 * std) \div 100 ELSE last_value
        p90 == IF std > 0 THEN last_value + (128 * std) \div 100 ELSE last_value
    IN ForecastQuantiles(Round2(p10, tieUp), Round2(p25, tieUp), Round2(last_value, tieUp),
                         Round2(p75, tieUp), Round2(p90, tieUp))

\* TFTModel._generate_quantiles, one step, for a constant series: the weighted
\* mean is the value and the weighted std is 0
TftQuantiles(series, tieUp) ==
    LET weighted_mean == series[Len(series)] * QuantileUnit
        spread == 0
    IN ForecastQuantiles(Round2(Max(weighted_mean - (128 * spread) \div 100, 0), tieUp),
                         Round2(Max(weighted_mean - (67 * spread) \div 100, 0), tieUp),
                         Round2(Max(weighted_mean, 0), tieUp),
                         Round2(weighted_mean + (67 * spread) \div 100, tieUp),
                         Round2(weighted_mean + (128 * spread) \div 100, tieUp))

\* _quantile_forecast_from_history (LGBM), one step, for a constant series:
\* point is the value, std of the differences is 0, every level max(point, 0)
LgbmQuantiles(series, tieUp) ==
    LET point == Max(series[Len(series)] * QuantileUnit, 0)
    IN ForecastQuantiles(Round2(point, tieUp), Round2(point, tieUp), Round2(point, tieUp),
                         Round2(point, tieUp), Round2(point, tieUp))

\* _bootstrap_quantiles (Croston), one step, for a constant series: no
\* positive demand gives zeros, otherwise every simulated path is the value
CrostonQuantiles(series, tieUp) ==
    LET v == IF series[Len(series)] > 0 THEN series[Len(series)] * QuantileUnit ELSE 0
    IN ForecastQuantiles(Round2(v, tieUp), Round2(v, tieUp), Round2(v, tieUp),
                         Round2(v, tieUp), Round2(v, tieUp))

\* The quantile tuple of one step for a fitted product (the same at every
\* step for the series considered)
StepQuantiles(kind, fit, tieUp) ==
    CASE kind = "NAIVE" -> NaiveQuantiles(fit, tieUp)
      [] kind = "TFT" -> TftQuantiles(fit.series, tieUp)
      [] kind = "LGBM" -> LgbmQuantiles(fit.series, tieUp)
      [] kind = "CROSTON" -> CrostonQuantiles(fit.series, tieUp)

\* predict: one ForecastResult per requested id, empty quantiles when the
\* product is not fitted
predict(kind, fitted, produto_ids, horizonte_semanas, tieUp) ==
    [i \in 1..Len(produto_ids) |->
        [produto_id |-> produto_ids[i], model_name |-> kind,
         quantiles |-> IF produto_ids[i] \in DOMAIN fitted
                       THEN [k \in 1..horizonte_semanas |->
                                StepQuantiles(kind, fitted[produto_ids[i]], tieUp)]
                       ELSE <<>>]]

TmIdle ==
    /\ tm_kind = NoName
    /\ tm_fitted = <<>>
    /\ tm_version = 0
    /\ tm_call = NoValue
\* A model of any kind right after construction
TmInit ==
    /\ tm_kind \in ModelKinds
    /\ tm_fitted = <<>>
    /\ tm_version = 0
    /\ tm_call = NoValue

\* await model.train(produto_ids, force_retrain=..., series_by_product=...)
Train ==
    /\ tm_version < MaxVersion
    /\ \E produto_ids \in TrainIdLists, force_retrain \in BOOLEAN,
          series_by_product \in TrainSeriesDicts(tm_kind) :
          LET t == train(tm_kind, tm_fitted, tm_version, produto_ids, force_retrain,
                         series_by_product)
          IN /\ tm_fitted' = t.fitted
             /\ tm_version' = t.version
             /\ tm_call' = [op |-> "train", produto_ids |-> produto_ids,
                            force_retrain |-> force_retrain,
                            series_by_product |-> series_by_product,
                            pre_fitted |-> tm_fitted, pre_version |-> tm_version,
                            out |-> t.result]
    /\ UNCHANGED tm_kind
    /\ UNCHANGED tmRest

\* await model.predict(produto_ids, horizonte_semanas); the quantiles of a
\* fitted ETS product come out of a statsmodels simulation and are left out
Predict ==
    /\ tm_kind # "ETS" \/ tm_fitted = <<>>
    /\ \E produto_ids \in TrainIdLists, horizonte_semanas \in 0..2, tieUp \in BOOLEAN :
          tm_call' = [op |-> "predict", produto_ids |-> produto_ids,
                      force_retrain |-> FALSE, series_by_product |-> <<>>,
                      pre_fitted |-> tm_fitted, pre_version |-> tm_version,
                      out |-> predict(tm_kind, tm_fitted, produto_ids,
                                      horizonte_semanas, tieUp)]
    /\ UNCHANGED <<tm_kind, tm_fitted, tm_version>>
    /\ UNCHANGED tmRest

\* ----------------------------------------------------- EnsembleModel.predict
DEFAULT_WEIGHTS == [TFT |-> 6, LGBM |-> 4]            \* tenths: 0.6 and 0.4
\* self._weights: the default or what the constructor was given
EnsembleWeights == {DEFAULT_WEIGHTS, [TFT |-> 5, LGBM |-> 5]}

\* _blend: round(float(va) * weight_a + float(vb) * weight_b, 2), values in
\* hundredths and weights in tenths
Blend(va, vb, weight_a, weight_b, tieUp) ==
    RoundDiv(va * weight_a + vb * weight_b, 10, 1, tieUp)

\* Mutant: the two sub-model values are swapped
weighted_quantile_Swapped(quantiles_a, quantiles_b, weight_a, weight_b, tieUp) ==
    ForecastQuantiles(Blend(quantiles_b.p10, quantiles_a.p10, weight_a, weight_b, tieUp),
                      Blend(quantiles_b.p25, quantiles_a.p25, weight_a, weight_b, tieUp),
                      Blend(quantiles_b.p50, quantiles_a.p50, weight_a, weight_b, tieUp),
                      Blend(quantiles_b.p75, quantiles_a.p75, weight_a, weight_b, tieUp),
                      Blend(quantiles_b.p90, quantiles_a.p90, weight_a, weight_b, tieUp))

\* _weighted_quantile
weighted_quantile(quantiles_a, quantiles_b, weight_a, weight_b, tieUp) ==
    ForecastQuantiles(Blend(quantiles_a.p10, quantiles_b.p10, weight_a, weight_b, tieUp),
                      Blend(quantiles_a.p25, quantiles_b.p25, weight_a, weight_b, tieUp),
                      Blend(quantiles_a.p50, quantiles_b.p50, weight_a, weight_b, tieUp),
                      Blend(quantiles_a.p75, quantiles_b.p75, weight_a, weight_b, tieUp),
                      Blend(quantiles_a.p90, quantiles_b.p90, weight_a, weight_b, tieUp))

\* Quantile lists a sub-model may return for a product (hundredths)
SubQuantiles ==
    {<<>>,
     <<ForecastQuantiles(10000, 10000, 10000, 10000, 10000)>>,
     <<ForecastQuantiles(9000, 9000, 9000, 9000, 9000)>>,
     <<ForecastQuantiles(1, 2, 3, 4, 5),
       ForecastQuantiles(10000, 10000, 10000, 10000, 10000)>>}
\* What a sub-model's predict returns for one requested product: no result
\* at all or a result with one of the quantile lists
SubOutcomes == {NoValue} \cup {Some(q) : q \in SubQuantiles}
SubBehaviours == [TrainProducts -> SubOutcomes]

\* The result list of a sub-model that behaves as b for produto_ids
SubResults(model_name, produto_ids, b) ==
    LET Answered(pid) == b[pid] # NoValue
        ids == SelectSeq(produto_ids, Answered)
    IN [i \in 1..Len(ids) |->
           [produto_id |-> ids[i], model_name |-> model_name, quantiles |-> b[ids[i]][1]]]

\* {r.produto_id: r for r in results}.get(pid): the last result of that id
ResultFor(results, pid) ==
    LET at == {i \in DOMAIN results : results[i].produto_id = pid}
    IN IF at = {} THEN NoValue
       ELSE Some(results[CHOOSE i \in at : \A j \in at : j <= i])

\* The loop of EnsembleModel.predict
ensemble_predict(produto_ids, tft_results, lgbm_results, weights, tieUp) ==
    [i \in 1..Len(produto_ids) |->
        LET pid == produto_ids[i]
            tft_r == ResultFor(tft_results, pid)
            lgbm_r == ResultFor(lgbm_results, pid)
            empty == [produto_id |-> pid, model_name |-> "ENSEMBLE", quantiles |-> <<>>]
        IN IF tft_r = NoValue \/ lgbm_r = NoValue THEN empty
           ELSE IF tft_r[1].quantiles = <<>> \/ lgbm_r[1].quantiles = <<>> THEN empty
           ELSE LET horizon == Min(Len(tft_r[1].quantiles), Len(lgbm_r[1].quantiles))
                IN [produto_id |-> pid, model_name |-> "ENSEMBLE",
                    quantiles |-> [k \in 1..horizon |->
                        weighted_quantile(tft_r[1].quantiles[k], lgbm_r[1].quantiles[k],
                                          weights.TFT, weights.LGBM, tieUp)]]]

EnIdle ==
    /\ en_pc = "idle"
    /\ en_args = NoValue
    /\ en_loc = NoValue
    /\ en_out = NoValue
EnInit ==
    /\ en_pc = "tft"
    /\ en_args \in [produto_ids : TrainIdLists, weights : EnsembleWeights]
    /\ en_loc = [tft_results |-> <<>>, lgbm_results |-> <<>>]
    /\ en_out = NoValue

\* tft_results = await self._tft.predict(produto_ids, horizonte_semanas)
EnTftPredict ==
    /\ en_pc = "tft"
    /\ \E b \in SubBehaviours :
          en_loc' = [en_loc EXCEPT !.tft_results = SubResults("TFT", en_args.produto_ids, b)]
    /\ en_pc' = "lgbm"
    /\ UNCHANGED <<en_args, en_out>>
    /\ UNCHANGED enRest

\* lgbm_results = await self._lgbm.predict(produto_ids, horizonte_semanas)
EnLgbmPredict ==
    /\ en_pc = "lgbm"
    /\ \E b \in SubBehaviours :
          en_loc' = [en_loc EXCEPT !.lgbm_results = SubResults("LGBM", en_args.produto_ids, b)]
    /\ en_pc' = "blend"
    /\ UNCHANGED <<en_args, en_out>>
    /\ UNCHANGED enRest

\* The maps, the weights and the loop over produto_ids; return results
EnBlend ==
    /\ en_pc = "blend"
    /\ \E tieUp \in BOOLEAN :
          en_out' = Some(ensemble_predict(en_args.produto_ids, en_loc.tft_results,
                                          en_loc.lgbm_results, en_args.weights, tieUp))
    /\ en_pc' = "done"
    /\ UNCHANGED <<en_args, en_loc>>
    /\ UNCHANGED enRest

XIdle == CmIdle /\ AfIdle /\ CcIdle /\ TmIdle /\ EnIdle

\* ------------------------------------------------------- specifications
LibIdle == RegIdle /\ SegIdle /\ BtIdle /\ MdIdle /\ XIdle
InitRegistry == RegInit /\ SegIdle /\ BtIdle /\ MdIdle /\ XIdle /\ EvIdle /\ ApIdle /\ store = <<>> /\ JobIdle
NextRegistry == SelectModel
SpecRegistry == InitRegistry /\ [][NextRegistry]_vars

InitSegmenter == SegInit /\ RegIdle /\ BtIdle /\ MdIdle /\ XIdle /\ EvIdle /\ ApIdle /\ store = <<>> /\ JobIdle
NextSegmenter == Segment
SpecSegmenter == InitSegmenter /\ [][NextSegmenter]_vars

InitBacktester == BtInit /\ RegIdle /\ SegIdle /\ MdIdle /\ XIdle /\ EvIdle /\ ApIdle /\ store = <<>> /\ JobIdle
NextBacktester == BtFilter \/ BtBaseline \/ BtModel \/ BtReturn
SpecBacktester == InitBacktester /\ [][NextBacktester]_vars

InitMetadata == MdInit /\ RegIdle /\ SegIdle /\ BtIdle /\ XIdle /\ EvIdle /\ ApIdle /\ store = <<>> /\ JobIdle
NextMetadata == CollectMetadata
SpecMetadata == InitMetadata /\ [][NextMetadata]_vars

InitEvaluate == EvInit /\ ApIdle /\ store = <<>> /\ JobIdle /\ LibIdle
NextEvaluate == Evaluate
SpecEvaluate == InitEvaluate /\ [][NextEvaluate]_vars

NextPromotion == ApCall \/ ApFind \/ ApDemote \/ ApPromote \/ ApReturn \/ ApDone
InitPromotion == ApInit /\ EvIdle /\ JobIdle /\ LibIdle
SpecPromotion == InitPromotion /\ [][NextPromotion]_vars

InitJob == JobIdle /\ EvIdle /\ ApIdle /\ store = <<>> /\ LibIdle
NextJob ==
    \/ ProcessCall \/ ProcessInit \/ TrainIter \/ TrainReturn
    \/ Step1LoadData \/ Step2Segment \/ ModelIter \/ EndModelStep
    \/ Step7Revenue \/ Step8Metrics \/ Step9Collect \/ Step10Finalize
    \/ ProcessComplete \/ ProcessFail
SpecJob == InitJob /\ [][NextJob]_vars

InitChampionMetadata ==
    CmInit /\ AfIdle /\ CcIdle /\ TmIdle /\ EnIdle
        /\ ApIdle /\ EvIdle /\ JobIdle /\ RegIdle /\ SegIdle /\ BtIdle /\ MdIdle
NextChampionMetadata == CmFind \/ CmEvaluate \/ CmReturn
SpecChampionMetadata == InitChampionMetadata /\ [][NextChampionMetadata]_vars

InitPromotionFaults == ApInit /\ EvIdle /\ JobIdle /\ LibIdle
NextPromotionFaults ==
    \/ ApCall \/ ApFind \/ ApDemote \/ ApPromote \/ ApReturn \/ ApDone
    \/ ApDemoteFail \/ ApPromoteFail
SpecPromotionFaults == InitPromotionFaults /\ [][NextPromotionFaults]_vars

InitFamilyPromotion ==
    store \in ConsistentStores /\ ApIdle /\ EvIdle /\ JobIdle /\ LibIdle
NextFamilyPromotion ==
    ApCallInFamily \/ ApFind \/ ApDemote \/ ApPromote \/ ApReturn \/ ApDone
SpecFamilyPromotion == InitFamilyPromotion /\ [][NextFamilyPromotion]_vars

InitConcurrentPromotion ==
    CcInit /\ CmIdle /\ AfIdle /\ TmIdle /\ EnIdle
        /\ ApIdle /\ EvIdle /\ JobIdle /\ RegIdle /\ SegIdle /\ BtIdle /\ MdIdle
NextConcurrentPromotion == CcFind \/ CcDemote \/ CcPromote \/ CcReturn
SpecConcurrentPromotion == InitConcurrentPromotion /\ [][NextConcurrentPromotion]_vars

InitModel ==
    TmInit /\ EnIdle /\ CmIdle /\ AfIdle /\ CcIdle /\ store = <<>>
        /\ ApIdle /\ EvIdle /\ JobIdle /\ RegIdle /\ SegIdle /\ BtIdle /\ MdIdle
NextModel == Train \/ Predict
SpecModel == InitModel /\ [][NextModel]_vars

InitEnsemble ==
    EnInit /\ TmIdle /\ CmIdle /\ AfIdle /\ CcIdle /\ store = <<>>
        /\ ApIdle /\ EvIdle /\ JobIdle /\ RegIdle /\ SegIdle /\ BtIdle /\ MdIdle
NextEnsemble == EnTftPredict \/ EnLgbmPredict \/ EnBlend
SpecEnsemble == InitEnsemble /\ [][NextEnsemble]_vars

\* ======================================================= claims C1 - C6
\* What the evaluated call was given, read off the inputs
EvMetrics == DictGet(ev_per_product, ev_model_name)
EvCount == Cardinality(DOMAIN EvMetrics)
EvSum == SumOver([p \in DOMAIN EvMetrics |-> EvMetrics[p].mape], DOMAIN EvMetrics)
EvCompared == ev_pc = "done" /\ EvCount > 0 /\ ev_champion_mape # NoValue

C3_AutoPromoteWithoutChampion ==
    (ev_pc = "done" /\ EvCount > 0 /\ ev_champion_mape = NoValue) =>
        /\ ev_decision.promoted
        /\ ev_decision.champion_mape = NoValue
        /\ ev_decision.reason = AUTO_PROMOTED_REASON

\* C3 witness: auto-promotion of a challenger whose every product has the
\* largest MAPE.
C3_Witness ==
    /\ ev_pc = "done"
    /\ ev_champion_mape = NoValue
    /\ EvCount = MaxProducts
    /\ \A p \in DOMAIN EvMetrics : EvMetrics[p].mape = MaxMape
    /\ ev_decision.promoted

\* C4: without per-product metrics for model_name (key missing or empty map)
\* evaluate returns promoted = false with the no-metrics reason, for a
\* numeric champion_mape and for None alike.
C4_NoMetricsNoPromotion ==
    (ev_pc = "done" /\ EvCount = 0) =>
        /\ ~ev_decision.promoted
        /\ ev_decision.reason = NO_METRICS_REASON
        /\ ev_decision.model_name = ev_model_name
        /\ ev_decision.champion_mape = ev_champion_mape

\* C4 witness: the key is present with an empty map and no champion exists.
C4_Witness ==
    /\ ev_pc = "done"
    /\ ev_model_name \in DOMAIN ev_per_product
    /\ EvCount = 0
    /\ ev_champion_mape = NoValue
    /\ ~ev_decision.promoted

ApFamily == ap_decision.model_name
ApMutations ==
    {i \in DOMAIN ap_repo_calls :
        ap_repo_calls[i][1] \in {"demote_champion", "promote_champion"}}

\* C2: a promoted apply_promotion demotes every champion of the family before
\* it flags new_model_id (no champion of the family is left between the two
\* steps), and once it has returned new_model_id is flagged and is the only
\* flagged model of decision.model_name's family.
C2_DemoteAllThenPromote ==
    /\ ap_pc = "promote" => ChampionsOf(store, ApFamily) = {}
    /\ (ap_pc = "returned" /\ ap_log.promoted) =>
        /\ store[ap_new_model_id].is_champion
        /\ ChampionsOf(store, ApFamily) \subseteq {ap_new_model_id}
        /\ Len(ap_repo_calls) = 3
        /\ ap_repo_calls[2] = <<"demote_champion", ApFamily>>
        /\ ap_repo_calls[3][1] = "promote_champion"
        /\ ap_repo_calls[3][2] = ap_new_model_id

\* C2 witness: a promotion returned for a family that had several champions,
\* none of them the new model.
C2_Witness ==
    /\ ap_pc = "returned"
    /\ ap_log.promoted
    /\ Cardinality(ChampionsOf(ap_pre_store, ApFamily)) >= 2
    /\ ap_new_model_id \notin ChampionsOf(ap_pre_store, ApFamily)
    /\ store[ap_new_model_id].tipo_modelo = ApFamily

\* C5: a call with decision.promoted = false never awaits demote_champion or
\* promote_champion and leaves every row of every family as it was.
C5_NotPromotedNoMutation ==
    (ap_pc \in {"find", "demote", "promote", "log", "returned"} /\ ~ap_decision.promoted) =>
        /\ store = ap_pre_store
        /\ ApMutations = {}
        /\ ap_pc \notin {"demote", "promote"}

\* C5 witness: a non-promoted call returned while the family has a champion
\* other than the new model.
C5_Witness ==
    /\ ap_pc = "returned"
    /\ ~ap_log.promoted
    /\ ChampionsOf(store, ApFamily) # {}
    /\ ~store[ap_new_model_id].is_champion

\* C6: the returned PromotionLog repeats the decision's model_name, promoted,
\* new_mape, champion_mape and reason, and its champion_model_id is the
\* family's newest champion in the store as it was when the call started
\* (None when the family had none).
C6_LogRepeatsDecisionAndOldChampion ==
    ap_pc = "returned" =>
        /\ ap_log.model_name = ap_decision.model_name
        /\ ap_log.promoted = ap_decision.promoted
        /\ ap_log.new_mape = ap_decision.new_mape
        /\ ap_log.champion_mape = ap_decision.champion_mape
        /\ ap_log.reason = ap_decision.reason
        /\ IF ChampionsOf(ap_pre_store, ApFamily) = {}
           THEN ap_log.champion_model_id = NoId
           ELSE /\ ap_log.champion_model_id \in ChampionsOf(ap_pre_store, ApFamily)
                /\ \A o \in ChampionsOf(ap_pre_store, ApFamily) :
                      ap_pre_store[o].created_at
                        <= ap_pre_store[ap_log.champion_model_id].created_at

\* C6 witness: a promotion returned whose log names an old champion that the
\* call itself demoted.
C6_Witness ==
    /\ ap_pc = "returned"
    /\ ap_log.promoted
    /\ ap_log.champion_model_id # NoId
    /\ ap_log.champion_model_id # ap_new_model_id
    /\ ~store[ap_log.champion_model_id].is_champion
    /\ Cardinality(ChampionsOf(ap_pre_store, ApFamily)) >= 2

\* ====================================================== claims C7 - C10
PipelineJob == job_pc # "idle" /\ inp.job_type \in PipelineJobs
SegmentationRaises ==
    segment(inp.classifications, inp.weeks_by_product).raised # NoError
ExecuteReturned == PipelineJob /\ job_pc \in {"executed", "done"}
StepNames ==
    <<"load_data", "segment_skus", "execute_tft", "execute_ets", "execute_croston_tsb",
      "execute_lgbm_ensemble", "calculate_revenue", "calculate_metrics",
      "collect_results", "finalize">>
StatusOfStep(n) == result.steps[n].status
PredictCalls == {i \in DOMAIN calls : calls[i][1] = "predict"}
RaisedPredicts == {i \in PredictCalls : calls[i][3] = "raised"}
\* The number (3..6) of the model-execution step that runs model `name`
StepNumberOf(name) ==
    CASE name \in {"TFT", "TFT_REVENUE"} -> 3
      [] name = "ETS" -> 4
      [] name \in {"CROSTON", "TSB", "SBA"} -> 5
      [] name \in {"LGBM", "ENSEMBLE"} -> 6
      [] OTHER -> 0

\* C7: an execute call whose segmentation succeeds returns exactly 10 step
\* logs, numbered 1..10 and named in the documented order, whatever models are
\* configured, whatever is skipped and whatever fails.
C7_TenStepsInOrder ==
    (ExecuteReturned /\ ~SegmentationRaises) =>
        /\ Len(result.steps) = 10
        /\ \A i \in 1..10 :
              /\ result.steps[i].step_number = i
              /\ result.steps[i].step_name = StepNames[i]

\* C7 witness: execute returned 10 steps after a model step FAILED, another
\* was SKIPPED and the revenue step was SKIPPED.
C7_Witness ==
    /\ ExecuteReturned /\ ~SegmentationRaises
    /\ Len(result.steps) = 10
    /\ \E i \in 3..6 : StatusOfStep(i) = "FAILED"
    /\ \E i \in 3..6 : StatusOfStep(i) = "SKIPPED"
    /\ StatusOfStep(7) = "SKIPPED"

\* C8: when a model's predict raises in a model-execution step, that step is
\* logged FAILED with the exception message, no later model of the same step
\* is invoked, every later step is still run and logged, and the exception
\* does not leave execute.
C8_PredictFailureStaysInStep ==
    /\ PipelineJob => (job_pc # "raised" /\ raised = NoError)
    /\ PipelineJob =>
        \A i \in RaisedPredicts :
            /\ \A j \in PredictCalls :
                  j > i => StepNumberOf(calls[j][2]) > StepNumberOf(calls[i][2])
            /\ Len(result.steps) >= StepNumberOf(calls[i][2]) =>
                  /\ StatusOfStep(StepNumberOf(calls[i][2])) = "FAILED"
                  /\ result.steps[StepNumberOf(calls[i][2])].error_message
                        = <<calls[i][2], "predict raised">>
            /\ job_pc \in {"executed", "done"} =>
                  /\ Len(result.steps) = 10
                  /\ result.status = "COMPLETED"
    /\ (PipelineJob /\ job_pc = "done") =>
          (RaisedPredicts # {} => job_result.success /\ reporter.failures = <<>>)

\* C8 witness: CROSTON's predict raised while a TSB segment was waiting in the
\* same step; TSB was never invoked and the pipeline ran to step 10.
C8_Witness ==
    /\ ExecuteReturned
    /\ \E i \in RaisedPredicts : calls[i][2] = "CROSTON"
    /\ "TSB" \in DOMAIN ex.segments
    /\ \A j \in PredictCalls : calls[j][2] # "TSB"
    /\ Len(result.steps) = 10
    /\ StatusOfStep(5) = "FAILED"
    /\ result.status = "COMPLETED"

\* C9: when segmentation raises in a run_forecast or run_backtest job,
\* report_failed is called with the error, report_completed is not called and
\* process returns a JobResult with success = false carrying the error.
C9_SegmentationFailureReported ==
    (PipelineJob /\ job_pc = "done" /\ SegmentationRaises) =>
        /\ Len(reporter.failures) = 1
        /\ reporter.completions = <<>>
        /\ ~job_result.success
        /\ job_result.error # NoError

\* C10: in a job that runs the pipeline to its end the reporter receives,
\* after the step-0 event, one event for each of the 10 pipeline steps, with
\* total_steps = 10 and in increasing step order.
C10_OneEventPerPipelineStep ==
    (PipelineJob /\ job_pc = "done" /\ Len(result.steps) = 10) =>
        /\ Len(reporter.events) = 11
        /\ \A i \in 1..11 :
              /\ reporter.events[i].step = i - 1
              /\ reporter.events[i].total_steps = 10

\* ===================================================== claims C11 - C20
TerminalEvents == Len(reporter.completions) + Len(reporter.failures)
\* Exactly one terminal event, of the kind the returned JobResult tells
TerminalMatchesResult ==
    /\ TerminalEvents = 1
    /\ Len(reporter.completions) = 1 <=> job_result.success
    /\ Len(reporter.failures) = 1 <=> ~job_result.success
    /\ job_result.success => job_result.error = NoError
    /\ ~job_result.success =>
          /\ job_result.error # NoError
          /\ reporter.failures[1].error = job_result.error

\* C11 as stated: every returned process call has emitted exactly one terminal
\* event, report_completed exactly when success = true, report_failed exactly
\* when success = false with a non-empty error.
C11_TerminalWithNonEmptyError ==
    job_pc = "done" =>
        /\ TerminalMatchesResult
        /\ ~job_result.success => job_result.error # EMPTY_MESSAGE

\* C11 amended: every returned process call has emitted exactly one terminal
\* event, report_completed exactly when success = true, report_failed exactly
\* when success = false with error = str(e) (not None, possibly the empty
\* string); no terminal event precedes the return, no progress event follows
\* it, and after a failure no model or pipeline operation runs again.
C11_OneTerminalEvent ==
    /\ [](job_pc # "done" => TerminalEvents = 0)
    /\ [](job_pc = "done" => TerminalMatchesResult)
    /\ [][(TerminalEvents > 0 \/ job_pc = "raised") =>
            /\ reporter'.events = reporter.events
            /\ calls' = calls
            /\ result' = result]_vars

\* C11 witness: a train job whose first model trained and whose second model
\* raised has returned with one failure and no completion.
C11_Witness ==
    /\ job_pc = "done"
    /\ ~job_result.success
    /\ Len(calls) = 2 /\ calls[1][3] = "returned" /\ calls[2][3] = "raised"
    /\ Len(reporter.failures) = 1 /\ reporter.completions = <<>>

\* C12: for every job type the first progress event is the step-0 event named
\* "initializing" with percent 0; it precedes every train call, every pipeline
\* step and every event with step >= 1.
C12_InitializingFirst ==
    /\ reporter.events # <<>> =>
          /\ reporter.events[1].step = 0
          /\ reporter.events[1].step_name = "initializing"
          /\ reporter.events[1].percent = 0
          /\ \A i \in 2..Len(reporter.events) : reporter.events[i].step >= 1
    /\ (calls # <<>> \/ result # NoValue \/ raised # NoError \/ TerminalEvents > 0) =>
          reporter.events # <<>>

\* C12 witness: a train_model job has made a train call; its first event is the
\* step-0 event and the training event of step 1 follows it.
C12_Witness ==
    /\ Len(reporter.events) >= 2
    /\ reporter.events[1].step = 0
    /\ reporter.events[2].step = 1
    /\ inp.job_type = "train_model" /\ calls # <<>>

\* The arguments and the result of the select_model call
RegDone == reg_pc = "done"
RegWeeksKnownBelow40 ==
    reg_args.weeks_of_data # NoValue /\ reg_args.weeks_of_data[1] < 40
\* The documented table: (primary, fallback) for a class and a pattern
ReferencePair(classe_abc, padrao_demanda) ==
    CASE padrao_demanda = "INTERMITENTE" -> <<"CROSTON", "SBA">>
      [] padrao_demanda = "LUMPY" -> <<"TSB", "BOOTSTRAP">>
      [] padrao_demanda = "REGULAR" /\ classe_abc \in {"A", "B"} -> <<"TFT", "LGBM">>
      [] padrao_demanda = "REGULAR" /\ classe_abc = "C" -> <<"ETS", "NAIVE">>
      [] padrao_demanda = "ERRATICO" /\ classe_abc \in {"A", "B"} -> <<"TFT", "ETS">>
      [] padrao_demanda = "ERRATICO" /\ classe_abc = "C" -> <<"ETS", "NAIVE">>
RegReference == ReferencePair(reg_args.classe_abc, reg_args.padrao_demanda)
RegEnsembleExpected == reg_args.classe_abc = "A" /\ RegReference[1] = "TFT"
RegMatchesReference ==
    /\ reg_selection.primary = RegReference[1]
    /\ reg_selection.fallback = RegReference[2]
    /\ reg_selection.ensemble = RegEnsembleExpected
    /\ reg_selection.ensemble_weights =
          IF RegEnsembleExpected THEN [TFT |-> 6, LGBM |-> 4] ELSE NoValue

\* C13: with a non-None modelo_override select_model returns the override as
\* primary, fallback "NAIVE", ensemble false and no weights, for every class,
\* pattern and weeks_of_data (below 40 and None included).
C13_OverrideWins ==
    (RegDone /\ reg_args.modelo_override # NoName) =>
        /\ reg_selection.primary = reg_args.modelo_override
        /\ reg_selection.fallback = "NAIVE"
        /\ reg_selection.ensemble = FALSE
        /\ reg_selection.ensemble_weights = NoValue

\* C13 witness: an override was given for an intermittent product with fewer
\* than 40 weeks of data, and select_model has returned.
C13_Witness ==
    /\ RegDone /\ reg_args.modelo_override = "ENSEMBLE"
    /\ reg_args.padrao_demanda = "INTERMITENTE"
    /\ RegWeeksKnownBelow40
    /\ reg_selection.primary = "ENSEMBLE"

\* C14: without override, weeks_of_data known and below 40 gives (ETS, NAIVE,
\* no ensemble) for every class and pattern; with weeks_of_data None or 40 or
\* more the rule is not applied: the result is the table's.
C14_InsufficientDataRule ==
    (RegDone /\ reg_args.modelo_override = NoName) =>
        IF RegWeeksKnownBelow40
        THEN reg_selection = ModelSelection("ETS", "NAIVE", FALSE, NoValue)
        ELSE /\ RegMatchesReference
             /\ reg_args.padrao_demanda \in {"INTERMITENTE", "LUMPY"} =>
                    reg_selection.primary # "ETS"

\* C14 witness: a LUMPY product with 39 weeks got ETS.
C14_Witness ==
    /\ RegDone /\ reg_args.modelo_override = NoName
    /\ reg_args.padrao_demanda = "LUMPY"
    /\ reg_args.weeks_of_data = Some(39)
    /\ reg_selection.primary = "ETS"

\* C15: without override and with sufficient or unknown history the result is
\* the reference table's pair for every (class, pattern); ensemble is true only
\* for class A with primary TFT, and the weights are {TFT: 0.6, LGBM: 0.4}
\* exactly when ensemble is true, absent otherwise.
C15_ReferenceTable ==
    (RegDone /\ reg_args.modelo_override = NoName /\ ~RegWeeksKnownBelow40) =>
        /\ RegMatchesReference
        /\ reg_selection.ensemble =>
              reg_args.classe_abc = "A" /\ reg_selection.primary = "TFT"
        /\ reg_selection.ensemble <=> reg_selection.ensemble_weights # NoValue

\* C15 witness: class A, ERRATICO, unknown history: TFT with fallback ETS and
\* the ensemble weights.
C15_Witness ==
    /\ RegDone /\ reg_args.modelo_override = NoName
    /\ reg_args.weeks_of_data = NoValue
    /\ reg_args.classe_abc = "A" /\ reg_args.padrao_demanda = "ERRATICO"
    /\ reg_selection.ensemble
    /\ reg_selection.fallback = "ETS"

\* The arguments and the result of the segment call
SegReturned == seg_pc = "done" /\ seg_out.raised = NoError
SegInput == seg_args.classifications
\* The primary model the registry selects for the i-th input classification
SegPrimary(i) ==
    select_model(SegInput[i].classe_abc, SegInput[i].padrao_demanda,
                 SegInput[i].modelo_forecast_sugerido,
                 WeeksOf(seg_args.weeks_by_product, SegInput[i].produto_id)).primary
\* The product ids of the input whose primary model is m, in input order
RECURSIVE SegExpectedIds(_, _)
SegExpectedIds(m, n) ==
    IF n = 0 THEN <<>>
    ELSE IF SegPrimary(n) = m
    THEN Append(SegExpectedIds(m, n - 1), SegInput[n].produto_id)
    ELSE SegExpectedIds(m, n - 1)

\* C16: segment puts every classification's product id in exactly the segment
\* of the primary model the registry selects for it, in input order, creates
\* no empty segment, records for each product a selection whose primary is the
\* segment's model name, and the segment sizes sum to the number of inputs.
C16_SegmentsPartitionInput ==
    SegReturned =>
        LET segments == seg_out.segments
        IN /\ DOMAIN segments = {SegPrimary(i) : i \in DOMAIN SegInput}
           /\ \A m \in DOMAIN segments :
                 /\ segments[m].model_name = m
                 /\ segments[m].produto_ids = SegExpectedIds(m, Len(SegInput))
                 /\ segments[m].produto_ids # <<>>
                 /\ DOMAIN segments[m].selections
                       = {segments[m].produto_ids[k] : k \in DOMAIN segments[m].produto_ids}
                 /\ \A q \in DOMAIN segments[m].selections :
                       segments[m].selections[q].primary = m
           /\ SumOver([m \in DOMAIN segments |-> Len(segments[m].produto_ids)],
                      DOMAIN segments) = Len(SegInput)

\* C16 witness: three classifications given in the order 3, 1, 2 gave two
\* segments, one of them holding two products.
C16_Witness ==
    /\ SegReturned
    /\ Len(SegInput) = 3
    /\ SegInput[1].produto_id = 3 /\ SegInput[2].produto_id = 1
    /\ Cardinality(DOMAIN seg_out.segments) = 2
    /\ \E m \in DOMAIN seg_out.segments : seg_out.segments[m].produto_ids = <<3, 1>>

\* The requested products whose series is longer than the holdout
BtKept ==
    {pid \in SeqRange(bt_args.produto_ids) :
        /\ pid \in DOMAIN bt_args.series_by_product
        /\ Len(bt_args.series_by_product[pid]) > bt_args.holdout_weeks}
BtFiltered == bt_pc \in {"baseline", "models", "done", "raised"}
BtCompleted == bt_pc = "done"
BtModelKeys == DOMAIN bt_result.per_product \ {"BASELINE"}

\* C17: run keeps exactly the requested products whose series is strictly
\* longer than holdout_weeks; products_tested is their number, no other product
\* is a key of a per_product map, and when none is kept the result is empty
\* and no model's backtest is invoked.
C17_OnlyLongSeriesKept ==
    BtFiltered =>
        /\ SeqRange(bt_loc.valid_pids) = BtKept
        /\ bt_result.products_tested = Cardinality(BtKept)
        /\ \A m \in DOMAIN bt_result.per_product :
              DOMAIN bt_result.per_product[m] \subseteq BtKept
        /\ \A i \in DOMAIN bt_result.baseline_comparisons :
              bt_result.baseline_comparisons[i].produto_id \in BtKept
        /\ BtKept = {} =>
              /\ bt_pc = "done"
              /\ bt_result.per_product = <<>>
              /\ bt_result.per_class = <<>>
              /\ bt_result.baseline_comparisons = <<>>
              /\ bt_calls = <<>>

\* C17 witness: of two requested products one has a series exactly
\* holdout_weeks long and is left out, the other is kept and a model has
\* returned metrics for it.
C17_Witness ==
    /\ BtCompleted
    /\ Len(bt_args.produto_ids) = 2
    /\ \E pid \in SeqRange(bt_args.produto_ids) :
          /\ pid \in DOMAIN bt_args.series_by_product
          /\ Len(bt_args.series_by_product[pid]) = bt_args.holdout_weeks
    /\ bt_result.products_tested = 1
    /\ BtModelKeys # {}

\* C18: whenever run completes with at least one valid product,
\* per_product["BASELINE"] and per_class["BASELINE"] are present and the
\* baseline covers exactly the valid products, whatever models are supplied.
C18_BaselineAlwaysPresent ==
    (BtCompleted /\ BtKept # {}) =>
        /\ "BASELINE" \in DOMAIN bt_result.per_product
        /\ "BASELINE" \in DOMAIN bt_result.per_class
        /\ DOMAIN bt_result.per_product["BASELINE"] = BtKept
        /\ SumOver([c \in DOMAIN bt_result.per_class["BASELINE"] |->
                       bt_result.per_class["BASELINE"][c].product_count],
                   DOMAIN bt_result.per_class["BASELINE"]) = Cardinality(BtKept)

\* C18 witness: run completed for two valid products with no model supplied.
C18_Witness ==
    /\ BtCompleted
    /\ bt_args.models = <<>>
    /\ Cardinality(BtKept) = 2
    /\ DOMAIN bt_result.per_product = {"BASELINE"}

\* C19: a model whose backtest returns no metrics gets no key in per_product,
\* no key in per_class and no comparison, and the run goes on; the models
\* before and after it keep their entries; per_class has a key for a model
\* exactly when per_product has one.
C19_EmptyModelSkipped ==
    BtFiltered =>
        /\ DOMAIN bt_result.per_class = DOMAIN bt_result.per_product
        /\ \A i \in DOMAIN bt_calls :
              bt_calls[i].outcome = "returned" =>
                 IF DOMAIN bt_calls[i].metrics = {}
                 THEN /\ bt_calls[i].model_name \notin DOMAIN bt_result.per_product
                      /\ \A k \in DOMAIN bt_result.baseline_comparisons :
                            bt_result.baseline_comparisons[k].model_name
                               # bt_calls[i].model_name
                      /\ bt_pc # "raised" \/ i < Len(bt_calls)
                 ELSE bt_result.per_product[bt_calls[i].model_name] = bt_calls[i].metrics

\* C19 witness: of three models the second returned no metrics; the run
\* completed with the entries of the first and the third.
C19_Witness ==
    /\ BtCompleted
    /\ Len(bt_calls) = 3
    /\ DOMAIN bt_calls[2].metrics = {}
    /\ BtModelKeys = {bt_calls[1].model_name, bt_calls[3].model_name}
    /\ bt_calls[2].model_name \notin DOMAIN bt_result.per_class

\* The champion MAPE collect_metadata looks up for the i-th model
MdChampionOf(i) ==
    IF md_args.models[i] \in DOMAIN md_args.champion_mapes[1]
    THEN md_args.champion_mapes[1][md_args.models[i]] ELSE NoValue

\* C20: when champion_mapes is supplied, the is_champion flag and the
\* promotion_log.promoted that collect_metadata produces for a model equal the
\* promoted flag evaluate returns for the same backtest result, model name and
\* champion MAPE.
C20_SameRuleAsEvaluate ==
    (md_pc = "done" /\ md_args.champion_mapes # NoValue) =>
        \A i \in DOMAIN md_out :
            \E tieUp \in BOOLEAN :
                LET promoted == evaluate(md_args.per_product, md_args.models[i],
                                         MdChampionOf(i), tieUp).promoted
                IN /\ md_out[i].is_champion = promoted
                   /\ md_out[i].training_metrics # NoValue =>
                         md_out[i].training_metrics.promotion_log.promoted = promoted

\* ===================================================== claims C21 - C30
CmDone == cm_pc = "done"
CmModel(i) == cm_args.models[i]
CmLookup(i) == cm_trace[2 * i - 1]
CmDecision(i) == cm_trace[2 * i].decision[1]
CmHasMetrics(i) == DOMAIN DictGet(cm_args.per_product, CmModel(i)) # {}
\* One ModelMetadata per model handled so far, in the order of `models`, the
\* champion lookup of a model made before its evaluate call, evaluate given
\* the looked-up champion MAPE, and is_champion equal to decision.promoted
CmOrderedAndFlagged ==
    /\ Len(cm_out) <= Len(cm_args.models)
    /\ CmDone => Len(cm_out) = Len(cm_args.models)
    /\ Len(cm_trace) = 2 * Len(cm_out) + (IF cm_pc = "evaluate" THEN 1 ELSE 0)
    /\ \A i \in 1..Len(cm_out) :
          /\ cm_out[i].model_name = CmModel(i)
          /\ CmLookup(i).op = "find_current_champion"
          /\ CmLookup(i).model_name = CmModel(i)
          /\ cm_trace[2 * i].op = "evaluate"
          /\ cm_trace[2 * i].model_name = CmModel(i)
          /\ CmDecision(i).champion_mape = CmLookup(i).champion_mape
          /\ cm_out[i].is_champion = CmDecision(i).promoted
CmLogMatches(i) ==
    LET log == cm_out[i].training_metrics.promotion_log
    IN /\ log.promoted = CmDecision(i).promoted
       /\ log.new_mape = CmDecision(i).new_mape
       /\ log.champion_mape = CmDecision(i).champion_mape
       /\ log.reason = CmDecision(i).reason

\* C21 as stated: collect_metadata_with_champion returns one ModelMetadata per
\* model in order, looks the champion up before evaluating, sets is_champion
\* to decision.promoted, and every returned training_metrics holds the
\* decision as its promotion_log.
C21_LogAlwaysPackaged ==
    cm_pc # "idle" =>
        /\ CmOrderedAndFlagged
        /\ \A i \in 1..Len(cm_out) :
              /\ cm_out[i].training_metrics # NoValue
              /\ CmLogMatches(i)

\* C21 amended: collect_metadata_with_champion returns one ModelMetadata per
\* model in order, looks the champion up before evaluating and sets
\* is_champion to decision.promoted; the decision is packaged as promotion_log
\* inside training_metrics exactly for the models that have per-product
\* backtest metrics, and a model without them gets training_metrics None, so
\* its decision is not in the returned value.
C21_LogPackagedWithMetrics ==
    cm_pc # "idle" =>
        /\ CmOrderedAndFlagged
        /\ \A i \in 1..Len(cm_out) :
              IF CmHasMetrics(i)
              THEN cm_out[i].training_metrics # NoValue /\ CmLogMatches(i)
              ELSE cm_out[i].training_metrics = NoValue /\ ~cm_out[i].is_champion

\* Two models: the first beat a stored champion and carries its promotion_log,
\* the second has no backtest metrics
C21_Witness ==
    /\ CmDone
    /\ Len(cm_out) = 2
    /\ CmLookup(1).champion_mape # NoValue
    /\ cm_out[1].is_champion
    /\ cm_out[1].training_metrics # NoValue
    /\ cm_out[2].training_metrics = NoValue

\* The stored champion found for model i has training metrics that are NULL,
\* empty or without an "avg_mape" entry
CmChampionWithoutMape(i) ==
    /\ CmLookup(i).champion_id # NoId
    /\ LET mt == store[CmLookup(i).champion_id].metricas_treino
       IN \/ mt = NoValue
          \/ "avg_mape" \notin DOMAIN mt[1]
CmTreatedAsMissing ==
    \A i \in 1..Len(cm_out) :
        CmChampionWithoutMape(i) =>
            /\ CmDecision(i).champion_mape = NoValue
            /\ CmHasMetrics(i) =>
                  /\ cm_out[i].is_champion
                  /\ CmDecision(i).reason = AUTO_PROMOTED_REASON

\* C29: in collect_metadata_with_champion a stored champion whose training
\* metrics are empty or hold no avg_mape counts as no champion: champion_mape
\* is None and a challenger with any backtest metrics is marked is_champion
\* whatever its MAPE; the call never changes the store.
C29_ChampionWithoutMapeIsMissing ==
    /\ [](cm_pc # "idle" => CmTreatedAsMissing)
    /\ [][cm_pc # "idle" => store' = store]_vars

\* A champion row with metrics but no avg_mape was found and the challenger
\* with the worst MAPE was marked champion
C29_Witness ==
    /\ CmDone
    /\ CmLookup(1).champion_id # NoId
    /\ store[CmLookup(1).champion_id].metricas_treino = Some([avg_mae |-> 0])
    /\ cm_args.per_product["TFT"] = [p \in {1} |-> [mape |-> MaxMape * PercentUnit]]
    /\ cm_out[1].is_champion

CcBothReturned == \A j \in CcJobs : cc_pc[j] = "returned"
CcLastWriter == cc_args.new_model_id[cc_writes[Len(cc_writes)]]
\* C26: two jobs run apply_promotion with promoted decisions for the same
\* model name; under every interleaving of their find, demote and promote
\* steps, once both have completed the model flagged by the later promote is
\* the family's champion and no other model of the family is flagged.
C26_LastWriterIsOnlyChampion ==
    CcBothReturned => ChampionsOf(store, cc_args.model_name) = {CcLastWriter}

\* Both demotions ran before the first promotion: two models are flagged
C26_TwoChampions ==
    /\ CcBothReturned
    /\ Cardinality(ChampionsOf(store, cc_args.model_name)) = 2

\* The calls ran one after the other
C26_Sequential ==
    /\ CcBothReturned
    /\ cc_args.new_model_id[1] # cc_args.new_model_id[2]
    /\ ChampionsOf(store, cc_args.model_name) = {CcLastWriter}

ApLastCall == ap_repo_calls[Len(ap_repo_calls)]
ApFindCall == <<"find_current_champion", ApFamily>>
ApDemoteCall == <<"demote_champion", ApFamily>>
ApPromoteCall == <<"promote_champion", ap_new_model_id>>
\* C27: when promote_champion raises after a successful demote_champion the
\* family has zero champions, the error leaves apply_promotion with no retry
\* and no re-promotion of the old champion and no PromotionLog is returned;
\* when demote_champion raises, promote_champion is never invoked.
C27_FailureLeavesNoChampion ==
    ap_pc = "raised" =>
        /\ ap_decision.promoted
        /\ ap_raised # NoError
        /\ ap_log = NoValue
        /\ IF ApLastCall[1] = "promote_champion"
           THEN /\ ap_repo_calls = <<ApFindCall, ApDemoteCall, ApPromoteCall>>
                /\ ChampionsOf(store, ApFamily) = {}
                /\ store = demote_champion(ap_pre_store, ApFamily)
           ELSE /\ ap_repo_calls = <<ApFindCall, ApDemoteCall>>
                /\ store = ap_pre_store

\* promote_champion raised in a call for a family that had a champion
C27_Witness ==
    /\ ap_pc = "raised"
    /\ ApLastCall[1] = "promote_champion"
    /\ ap_champion_id # NoId
    /\ ChampionsOf(ap_pre_store, ApFamily) # {}
    /\ ChampionsOf(store, ApFamily) = {}

\* demote_champion itself raised
C27_DemoteWitness ==
    /\ ap_pc = "raised"
    /\ ApLastCall[1] = "demote_champion"

ApOtherFamiliesKept ==
    \A id \in DOMAIN store :
        store[id].tipo_modelo # ApFamily =>
            store[id].is_champion = ap_pre_store[id].is_champion
ApChampionKept ==
    \A f \in Families :
        ChampionsOf(ap_pre_store, f) # {} => Cardinality(ChampionsOf(store, f)) = 1
\* C28: from a store with at most one champion per family, after any sequence
\* of completed, non-interleaved apply_promotion calls whose new_model_id is of
\* decision.model_name's family, every family has at most one champion, a
\* family that had a champion before a call has exactly one after it, the
\* store only changes inside a call, and a call for one family never changes
\* the champion flag of a model of another family.
C28_OneChampionPerFamily ==
    /\ [](/\ ChampionsConsistent(store)
          /\ ap_pc \notin {"idle", "promote"} => ApChampionKept
          /\ ap_pc # "idle" => ApOtherFamiliesKept)
    /\ [][(ap_pc = "idle" \/ ap_pc = "returned") => (store' = store)]_vars

\* A completed call replaced the family's champion by another model
C28_Witness ==
    /\ ap_pc = "returned"
    /\ ap_champion_id # NoId
    /\ ap_champion_id # ap_new_model_id
    /\ ChampionsOf(store, ApFamily) = {ap_new_model_id}
    /\ \E f \in Families : f # ApFamily /\ ChampionsOf(store, f) # {}

ExecuteRunning ==
    job_pc \in {"step1", "step2", "models", "endstep", "step7", "step8", "step9", "step10"}
TerminalStatus == {"COMPLETED", "FAILED"}
ModelStepsLogged == {n \in 3..6 : n <= Len(result.steps)}
PipelineStatusRules ==
    /\ ExecuteRunning => result.status = "RUNNING"
    /\ ExecuteReturned => result.status \in TerminalStatus
    /\ result.status = "FAILED" =>
          /\ SegmentationRaises
          /\ Len(result.steps) = 2
          /\ result.steps[1].step_number = 1
          /\ result.steps[2].step_number = 2
          /\ StatusOfStep(2) = "FAILED"
    /\ result.status = "COMPLETED" =>
          /\ ~SegmentationRaises
          /\ Len(result.steps) = TOTAL_STEPS
          /\ result.steps[TOTAL_STEPS].step_name = "finalize"
    /\ \A n \in ModelStepsLogged :
          StatusOfStep(n) # "FAILED" =>
              StatusOfStep(n) = (IF result.steps[n].products_processed > 0
                                 THEN "COMPLETED" ELSE "SKIPPED")
\* C30: PipelineResult.status is RUNNING while the steps execute and becomes
\* terminal once, after which the result (its step log included) no longer
\* changes; FAILED only when segmentation raised, with steps 1 and 2 only;
\* COMPLETED only after step 10 was logged, failed model or metrics steps
\* notwithstanding; a model step that did not fail is COMPLETED when it
\* processed at least one product and SKIPPED otherwise.
C30_StatusLifecycle ==
    /\ []((PipelineJob /\ result # NoValue) => PipelineStatusRules)
    /\ [][(PipelineJob /\ result # NoValue /\ result.status \in TerminalStatus)
              => (result' = result)]_vars
    /\ [][(PipelineJob /\ result # NoValue /\ result'.status # result.status)
              => (result.status = "RUNNING" /\ result'.status \in TerminalStatus)]_vars

\* The pipeline completed although one model step failed, another ran and
\* another was skipped
C30_Witness ==
    /\ ExecuteReturned
    /\ result.status = "COMPLETED"
    /\ \E a, b, c \in 3..6 :
          /\ StatusOfStep(a) = "FAILED"
          /\ StatusOfStep(b) = "COMPLETED"
          /\ StatusOfStep(c) = "SKIPPED"

\* The pipeline failed in segmentation
C30_FailedWitness ==
    /\ ExecuteReturned
    /\ result.status = "FAILED"

RevenueStepLogged == PipelineJob /\ result # NoValue /\ Len(result.steps) >= 7
RevenueEnabled == include_revenue(inp.job_type) /\ inp.prices_by_product # NoValue
HasRevenue(fr) == fr.produto_id \in DOMAIN inp.prices_by_product /\ fr.quantiles # <<>>
RevenueSources == SelectSeq(result.forecast_results, HasRevenue)
RevenueStepRules ==
    IF RevenueEnabled
    THEN /\ StatusOfStep(7) = "COMPLETED"
         /\ result.steps[7].products_processed = Len(result.revenue_results)
         /\ Len(result.revenue_results) = Len(RevenueSources)
         /\ \A k \in 1..Len(RevenueSources) :
               /\ result.revenue_results[k].produto_id = RevenueSources[k].produto_id
               /\ result.revenue_results[k].model_name
                     = <<RevenueSources[k].model_name, "_REVENUE">>
               /\ Len(result.revenue_results[k].quantiles)
                     = Len(RevenueSources[k].quantiles)
    ELSE /\ StatusOfStep(7) = "SKIPPED"
         /\ result.revenue_results = <<>>
\* C25: the revenue step appends exactly one revenue result, named with the
\* suffix _REVENUE and with as many steps, for each accumulated forecast result
\* whose product has a price and whose quantiles are not empty, and leaves
\* forecast_results as they were; without prices, or with revenue disabled,
\* step 7 is logged SKIPPED and revenue_results stays empty.
C25_RevenuePerPricedForecast ==
    /\ [](RevenueStepLogged => RevenueStepRules)
    /\ [][job_pc = "step7" => (result'.forecast_results = result.forecast_results)]_vars

\* Revenue was computed for one forecast and a forecast of a product without
\* price was left out
C25_Witness ==
    /\ RevenueStepLogged
    /\ RevenueEnabled
    /\ Len(result.revenue_results) >= 1
    /\ Len(result.forecast_results) > Len(result.revenue_results)
    /\ \E i \in DOMAIN result.forecast_results :
          result.forecast_results[i].produto_id \notin DOMAIN inp.prices_by_product

\* Revenue disabled or no prices: the step was skipped after forecasts were made
C25_SkippedWitness ==
    /\ RevenueStepLogged
    /\ ~RevenueEnabled
    /\ result.forecast_results # <<>>

TrainCalled == tm_call # NoValue /\ tm_call.op = "train"
TmUnusable(pid) == SeriesUnusable(tm_kind, pid, tm_call.series_by_product)
TmKept(pid) ==
    IF pid \in DOMAIN tm_call.pre_fitted
    THEN pid \in DOMAIN tm_fitted /\ tm_fitted[pid] = tm_call.pre_fitted[pid]
    ELSE pid \notin DOMAIN tm_fitted
\* The same train call made once more on the state the call left
TmRepeated ==
    train(tm_kind, tm_fitted, tm_version, tm_call.produto_ids, tm_call.force_retrain,
          tm_call.series_by_product)
PredictCalled == tm_call # NoValue /\ tm_call.op = "predict"
Ordered(q) == q.p10 <= q.p25 /\ q.p25 <= q.p50 /\ q.p50 <= q.p75 /\ q.p75 <= q.p90
AllOrdered(results) ==
    \A i \in DOMAIN results :
        \A k \in DOMAIN results[i].quantiles : Ordered(results[i].quantiles[k])
\* C24: every quantile tuple of every ForecastResult a model's predict
\* returns has p10 <= p25 <= p50 <= p75 <= p90, at every forecast step.
C24_QuantilesOrdered == PredictCalled => AllOrdered(tm_call.out)

EnDone == en_pc = "done"
EnOut == en_out[1]
EnTft(i) == ResultFor(en_loc.tft_results, en_args.produto_ids[i])
EnLgbm(i) == ResultFor(en_loc.lgbm_results, en_args.produto_ids[i])
\* Either sub-model gave no result, or an empty quantile list, for product i
EnLacking(i) ==
    \/ EnTft(i) = NoValue
    \/ EnLgbm(i) = NoValue
    \/ EnTft(i)[1].quantiles = <<>>
    \/ EnLgbm(i)[1].quantiles = <<>>
\* The weighted sum of level values a and b, in thousandths
EnWeightedSum(a, b) == a * en_args.weights.TFT + b * en_args.weights.LGBM
QuantileLevels == {"p10", "p25", "p50", "p75", "p90"}
\* One result per requested id, in request order, empty exactly when a
\* sub-model is lacking
EnOnePerRequest ==
    /\ Len(EnOut) = Len(en_args.produto_ids)
    /\ \A i \in DOMAIN EnOut :
          /\ EnOut[i].produto_id = en_args.produto_ids[i]
          /\ EnOut[i].model_name = "ENSEMBLE"
          /\ EnLacking(i) <=> EnOut[i].quantiles = <<>>
\* C23 as stated: EnsembleModel.predict returns one result per requested id
\* in request order, with empty quantiles whenever either sub-model gave no
\* result or empty quantiles, and otherwise every quantile level of every
\* step is the weighted sum of the sub-models' values at that level.
C23_ExactWeightedSum ==
    EnDone =>
        /\ EnOnePerRequest
        /\ \A i \in DOMAIN EnOut : \A k \in DOMAIN EnOut[i].quantiles :
              \A l \in QuantileLevels :
                  EnOut[i].quantiles[k][l] * 10
                      = EnWeightedSum(EnTft(i)[1].quantiles[k][l],
                                      EnLgbm(i)[1].quantiles[k][l])

\* C23 amended: one result per requested id in request order, with empty
\* quantiles whenever either sub-model gave no result or empty quantiles;
\* otherwise the result has as many steps as the shorter of the two lists and
\* every level of every step is the weighted sum rounded to 2 decimals (100
\* and 90 with 0.6 and 0.4 give 96.00).
C23_RoundedWeightedSum ==
    EnDone =>
        /\ EnOnePerRequest
        /\ \A i \in DOMAIN EnOut :
              ~EnLacking(i) =>
                  /\ Len(EnOut[i].quantiles)
                        = Min(Len(EnTft(i)[1].quantiles), Len(EnLgbm(i)[1].quantiles))
                  /\ \A k \in DOMAIN EnOut[i].quantiles : \A l \in QuantileLevels :
                        2 * Abs(EnOut[i].quantiles[k][l] * 10
                                - EnWeightedSum(EnTft(i)[1].quantiles[k][l],
                                                EnLgbm(i)[1].quantiles[k][l])) <= 10

\* 100 and 90 blended with 0.6 and 0.4 into 96.00 for the first product, and
\* an empty result for the second, which one sub-model did not answer
C23_Witness ==
    /\ EnDone
    /\ en_args.produto_ids = <<1, 2>>
    /\ en_args.weights = DEFAULT_WEIGHTS
    /\ EnTft(1) # NoValue /\ EnLgbm(1) # NoValue
    /\ EnTft(1)[1].quantiles = <<ForecastQuantiles(10000, 10000, 10000, 10000, 10000)>>
    /\ EnLgbm(1)[1].quantiles = <<ForecastQuantiles(9000, 9000, 9000, 9000, 9000)>>
    /\ EnOut[1].quantiles = <<ForecastQuantiles(9600, 9600, 9600, 9600, 9600)>>
    /\ EnTft(2) = NoValue
    /\ EnOut[2].quantiles = <<>>

====
